---- MODULE Spec2Model ----
(***************************************************************************)
(* Model of the linguinput transcoder of lin-ssg: the symbol table         *)
(* (table/mod.rs, table/raw.rs), the push-based Encoder (en.rs), the       *)
(* Decoder (de.rs) and the one-shot entry points encode / decode (lib.rs). *)
(*                                                                         *)
(* A char is its Unicode scalar value (a natural number), a string is a    *)
(* sequence of chars.  Byte lengths are computed as char::len_utf8 does.   *)
(***************************************************************************)
EXTENDS Integers, Sequences, FiniteSets, TLC

VARIABLES
    input,      \* en: the &str handed to encode / encode_to
    rest,       \* en: the chars of input that push_str has not yet taken
    pc,         \* en: position inside encode_to
    cell,       \* the static OnceLock TABLE of Table::load
    state,      \* Encoder::state
    buf,        \* Encoder::buf
    target,     \* Encoder::target (a String sink)
    result,     \* en: what encode_to returned
    de_input,   \* de: the &str handed to decode / decode_to
    de_pc,      \* de: position inside decode_to
    de_stack,   \* de: the live Decoder::push_str frames, innermost last
    de_target,  \* Decoder::target (a String sink)
    de_result,  \* de: what decode_to returned
    raw_table,  \* the source list Table::load reads (raw::TABLE)
    once,       \* load: the state of the Once inside the OnceLock
    builds,     \* load: how many times the closure of get_or_init has run
    th_pc,      \* load: each thread's position inside Table::load
    th_ret,     \* load: what Table::load returned to each thread
    log,        \* process: the calls made so far, each with its result
    calls,      \* process, api: how many calls have been made
    encs,       \* two: the two Encoders, each with its own input and sink
    ty,         \* transc: TranscArgs::ty
    attested,   \* transc: TranscArgs::attested
    args,       \* args: the argument map handed to ArgParser::new
    unknown,    \* args: ArgParser::unknown
    ap_pc,      \* args: position inside TranscArgs::parse
    parsed,     \* args: the fields of TranscArgs retrieved so far
    ap_result,  \* args: what TranscArgs::parse returned
    page,       \* page: the locals of RawPageParts::split
    tx,         \* text: the locals of <mdast::Text as ToHtml>::to_html
    ctx,        \* html: the ToHtmlCtx, the headings and the output
    ssg         \* ssg: the Config and the LinSsg built from it

en_vars == <<input, rest, pc, state, buf, target, result>>
de_vars == <<de_input, de_pc, de_stack, de_target, de_result>>
ld_vars == <<raw_table, once, builds, th_pc, th_ret>>
pr_vars == <<log, calls>>
tr_vars == <<ty, attested>>
ap_vars == <<args, unknown, ap_pc, parsed, ap_result>>
md_vars == <<page, tx, ctx, ssg>>
vars == <<input, rest, pc, cell, state, buf, target, result,
          de_input, de_pc, de_stack, de_target, de_result,
          raw_table, once, builds, th_pc, th_ret, log, calls, encs,
          ty, attested, args, unknown, ap_pc, parsed, ap_result,
          page, tx, ctx, ssg>>

----------------------------------------------------------------------------
(* Bounds *)

\* longest input drawn from Alphabet
MaxLen == 5

----------------------------------------------------------------------------
(* Chars and strings *)

LBrace == 123
RBrace == 125

\* char::len_utf8
Utf8Len(ch) ==
    IF ch < 128 THEN 1
    ELSE IF ch < 2048 THEN 2
    ELSE IF ch < 65536 THEN 3
    ELSE 4

\* str::len: the length in bytes
RECURSIVE ByteLen(_)
ByteLen(s) == IF s = <<>> THEN 0 ELSE Utf8Len(Head(s)) + ByteLen(Tail(s))

Max(a, b) == IF a >= b THEN a ELSE b

----------------------------------------------------------------------------
(* table/raw.rs: the source list of (code, char) pairs *)

\* a source list that gives the symbol of "a" a second time, to "aa"
TABLE_Repeated ==
    << <<<<97>>, <<592>>>>,
       <<<<101>>, <<603>>>>,
       <<<<97, 97>>, <<592>>>> >>

\* raw::TABLE
TABLE ==
    << <<<<60>>, <<10216>>>>,
       <<<<62>>, <<10217>>>>,
       <<<<95, 32, 48>>, <<8320>>>>,
       <<<<95, 32, 49>>, <<8321>>>>,
       <<<<95, 32, 50>>, <<8322>>>>,
       <<<<95, 32, 51>>, <<8323>>>>,
       <<<<95, 32, 52>>, <<8324>>>>,
       <<<<95, 32, 53>>, <<8325>>>>,
       <<<<95, 32, 54>>, <<8326>>>>,
       <<<<95, 32, 55>>, <<8327>>>>,
       <<<<95, 32, 56>>, <<8328>>>>,
       <<<<95, 32, 57>>, <<8329>>>>,
       <<<<94, 48>>, <<8304>>>>,
       <<<<94, 49>>, <<185>>>>,
       <<<<94, 50>>, <<178>>>>,
       <<<<94, 51>>, <<179>>>>,
       <<<<94, 52>>, <<8308>>>>,
       <<<<94, 53>>, <<8309>>>>,
       <<<<94, 54>>, <<8310>>>>,
       <<<<94, 55>>, <<8311>>>>,
       <<<<94, 56>>, <<8312>>>>,
       <<<<94, 57>>, <<8313>>>>,
       <<<<95, 32, 97>>, <<8336>>>>,
       <<<<95, 32, 101>>, <<8337>>>>,
       <<<<95, 32, 111>>, <<8338>>>>,
       <<<<95, 32, 104>>, <<8341>>>>,
       <<<<48>>, <<8709>>>>,
       <<<<116>>, <<254>>>>,
       <<<<49>>, <<745>>>>,
       <<<<50>>, <<744>>>>,
       <<<<51>>, <<743>>>>,
       <<<<52>>, <<742>>>>,
       <<<<53>>, <<741>>>>,
       <<<<97>>, <<592>>>>,
       <<<<97, 101>>, <<230>>>>,
       <<<<79, 69>>, <<630>>>>,
       <<<<97, 97>>, <<593>>>>,
       <<<<97, 111>>, <<594>>>>,
       <<<<101>>, <<603>>>>,
       <<<<111, 101>>, <<339>>>>,
       <<<<101, 65>>, <<604>>>>,
       <<<<111, 65>>, <<606>>>>,
       <<<<65>>, <<652>>>>,
       <<<<111>>, <<596>>>>,
       <<<<101, 97>>, <<601>>>>,
       <<<<111, 105>>, <<248>>>>,
       <<<<105, 97>>, <<600>>>>,
       <<<<105, 111>>, <<629>>>>,
       <<<<111, 97>>, <<612>>>>,
       <<<<73>>, <<618>>>>,
       <<<<89>>, <<655>>>>,
       <<<<85>>, <<650>>>>,
       <<<<105>>, <<616>>>>,
       <<<<117>>, <<649>>>>,
       <<<<117, 97>>, <<623>>>>,
       <<<<112, 104>>, <<632>>>>,
       <<<<98>>, <<946>>>>,
       <<<<103>>, <<611>>>>,
       <<<<100>>, <<240>>>>,
       <<<<116, 104>>, <<952>>>>,
       <<<<108, 111>>, <<619>>>>,
       <<<<114>>, <<633>>>>,
       <<<<114, 100>>, <<638>>>>,
       <<<<115, 114>>, <<642>>>>,
       <<<<115, 99>>, <<643>>>>,
       <<<<115, 106>>, <<597>>>>,
       <<<<99>>, <<231>>>>,
       <<<<106>>, <<669>>>>,
       <<<<74>>, <<607>>>>,
       <<<<120>>, <<967>>>>,
       <<<<82>>, <<640>>>>,
       <<<<82, 104>>, <<641>>>>,
       <<<<121>>, <<613>>>>,
       <<<<58>>, <<720>>>>,
       <<<<46>>, <<721>>>>,
       <<<<35, 46>>, <<815>>>>,
       <<<<35, 94, 46>>, <<785>>>>,
       <<<<39>>, <<712>>>>,
       <<<<44>>, <<716>>>>,
       <<<<94, 104>>, <<688>>>>,
       <<<<94, 104, 118>>, <<689>>>>,
       <<<<94, 61>>, <<749>>>>,
       <<<<35, 58>>, <<776>>>>,
       <<<<35, 94>>, <<865>>>>,
       <<<<35, 95, 32>>, <<860>>>>,
       <<<<94, 119>>, <<695>>>>,
       <<<<94, 106>>, <<690>>>>,
       <<<<94, 45, 103>>, <<736>>>>,
       <<<<94, 45, 121>>, <<7587>>>> >>

----------------------------------------------------------------------------
(* table/mod.rs *)

EmptyMap == <<>>

\* HashMap::entry(k) ... Vacant(entry) => entry.insert(v)
MapInsert(m, k, v) == (k :> v) @@ m

\* LoadPair with the check of the char direction left out
LoadPair_NoCharCheck(t, code, ch) ==
    IF code \in DOMAIN t.code_to_char
      THEN [ok |-> FALSE, err |-> [kind |-> "DuplicatedCode", arg |-> code]]
    ELSE [ok |-> TRUE,
          table |-> [max_code_len |-> Max(t.max_code_len, ByteLen(code)),
                     code_to_char |-> MapInsert(t.code_to_char, code, ch),
                     char_to_code |-> MapInsert(t.char_to_code, ch, code)]]

\* LoadPair that keeps the length of the last code instead of the largest
LoadPair_LastLen(t, code, ch) ==
    IF code \in DOMAIN t.code_to_char
      THEN [ok |-> FALSE, err |-> [kind |-> "DuplicatedCode", arg |-> code]]
    ELSE IF ch \in DOMAIN t.char_to_code
      THEN [ok |-> FALSE, err |-> [kind |-> "DuplicatedChar", arg |-> ch]]
    ELSE [ok |-> TRUE,
          table |-> [max_code_len |-> ByteLen(code),
                     code_to_char |-> MapInsert(t.code_to_char, code, ch),
                     char_to_code |-> MapInsert(t.char_to_code, ch, code)]]

\* one iteration of the loop of Table::load on the table t built so far:
\* max_code_len is raised first, then the code is entered, then the char
LoadPair(t, code, ch) ==
    IF code \in DOMAIN t.code_to_char
      THEN [ok |-> FALSE, err |-> [kind |-> "DuplicatedCode", arg |-> code]]
    ELSE IF ch \in DOMAIN t.char_to_code
      THEN [ok |-> FALSE, err |-> [kind |-> "DuplicatedChar", arg |-> ch]]
    ELSE [ok |-> TRUE,
          table |-> [max_code_len |-> Max(t.max_code_len, ByteLen(code)),
                     code_to_char |-> MapInsert(t.code_to_char, code, ch),
                     char_to_code |-> MapInsert(t.char_to_code, ch, code)]]

\* the loop of Table::load from pair i of src on; `?` leaves it at the
\* first error
RECURSIVE LoadFrom(_, _, _)
LoadFrom(src, i, r) ==
    IF i > Len(src) \/ ~r.ok THEN r
    ELSE LoadFrom(src, i + 1, LoadPair(r.table, src[i][1], src[i][2]))

\* the closure given to get_or_init in Table::load
BuildTable(src) ==
    LoadFrom(src, 1, [ok |-> TRUE,
                      table |-> [max_code_len |-> 0,
                                 code_to_char |-> EmptyMap,
                                 char_to_code |-> EmptyMap]])

Built == BuildTable(TABLE)

Uninit == [ok |-> FALSE, err |-> [kind |-> "Uninit", arg |-> <<>>]]

\* OnceLock::get_or_init with no other thread inside Table::load: the value
\* of the cell after the call, s being the source list
GetOrInit(c, s) == IF c = Uninit THEN BuildTable(s) ELSE c

None == [some |-> FALSE, val |-> <<>>]
Some(v) == [some |-> TRUE, val |-> v]

IsPrefix(p, s) == Len(p) <= Len(s) /\ SubSeq(s, 1, Len(p)) = p

\* code_to_char that resolves the longest table code the input starts with
code_to_char_Prefix(t, code) ==
    LET known == {k \in DOMAIN t.code_to_char : IsPrefix(k, code)}
    IN  IF known = {} THEN None
        ELSE Some(t.code_to_char[CHOOSE k \in known :
                                    \A j \in known : Len(j) <= Len(k)])

\* Table::code_to_char
code_to_char(t, code) ==
    IF code \in DOMAIN t.code_to_char THEN Some(t.code_to_char[code]) ELSE None

\* Table::char_to_code
char_to_code(t, ch) ==
    IF ch \in DOMAIN t.char_to_code THEN Some(t.char_to_code[ch]) ELSE None

----------------------------------------------------------------------------
(* en.rs: results and errors *)

NoResult == [kind |-> "None", arg |-> <<>>]
Ok(out) == [kind |-> "Ok", arg |-> out]
Err(kind, arg) == [kind |-> kind, arg |-> arg]
TableInit(e) == [kind |-> "TableInit", arg |-> <<e.kind>> \o e.arg]

\* what a call of Encoder::push leaves: the error (NoResult when it
\* returned Ok) and the encoder's fields
Pushed(err, st, b, tg) == [err |-> err, state |-> st, buf |-> b, target |-> tg]

\* push_Default with the verbatim copy of a literal char left out
push_Default_NoCopy(t, b, tg, ch) ==
    IF ch = LBrace THEN Pushed(NoResult, "Opening", b, tg)
    ELSE IF ch = RBrace THEN Pushed(NoResult, "Closing", b, tg)
    ELSE Pushed(NoResult, "Default", b, tg)

\* Encoder::push, the arms of EncoderState::Default
push_Default(t, b, tg, ch) ==
    IF ch = LBrace THEN Pushed(NoResult, "Opening", b, tg)
    ELSE IF ch = RBrace THEN Pushed(NoResult, "Closing", b, tg)
    ELSE Pushed(NoResult, "Default", b, Append(tg, ch))

\* push_Opening without the arm that refuses a code longer than max_code_len
push_Opening_NoLimit(t, b, tg, ch) ==
    IF b = <<>> /\ ch = LBrace
      THEN Pushed(NoResult, "Default", b, Append(tg, ch))
    ELSE IF ch = RBrace
      THEN LET encoded == code_to_char(t, b)
           IN  IF ~encoded.some
                 THEN Pushed(Err("UnknownCode", b), "Opening", b, tg)
                 ELSE Pushed(NoResult, "Default", <<>>, tg \o encoded.val)
    ELSE Pushed(NoResult, "Opening", Append(b, ch), tg)

\* push_Opening that drops the block when its code is unknown
push_Opening_ClearsOnError(t, b, tg, ch) ==
    IF b = <<>> /\ ch = LBrace
      THEN Pushed(NoResult, "Default", b, Append(tg, ch))
    ELSE IF ch = RBrace
      THEN LET encoded == code_to_char(t, b)
           IN  IF ~encoded.some
                 THEN Pushed(Err("UnknownCode", b), "Default", <<>>, tg)
                 ELSE Pushed(NoResult, "Default", <<>>, tg \o encoded.val)
    ELSE IF ByteLen(b) + Utf8Len(ch) > t.max_code_len
      THEN Pushed(Err("CodeTooBig", Append(b, ch)), "Opening", b, tg)
    ELSE Pushed(NoResult, "Opening", Append(b, ch), tg)

\* push_Opening that takes '{' for the escape whatever the buffer holds
push_Opening_AlwaysEscape(t, b, tg, ch) ==
    IF ch = LBrace
      THEN Pushed(NoResult, "Default", b, Append(tg, ch))
    ELSE IF ch = RBrace
      THEN LET encoded == code_to_char(t, b)
           IN  IF ~encoded.some
                 THEN Pushed(Err("UnknownCode", b), "Opening", b, tg)
                 ELSE Pushed(NoResult, "Default", <<>>, tg \o encoded.val)
    ELSE IF ByteLen(b) + Utf8Len(ch) > t.max_code_len
      THEN Pushed(Err("CodeTooBig", Append(b, ch)), "Opening", b, tg)
    ELSE Pushed(NoResult, "Opening", Append(b, ch), tg)

\* push_Opening that writes the code itself instead of the looked-up char
push_Opening_EmitsCode(t, b, tg, ch) ==
    IF b = <<>> /\ ch = LBrace
      THEN Pushed(NoResult, "Default", b, Append(tg, ch))
    ELSE IF ch = RBrace
      THEN LET encoded == code_to_char(t, b)
           IN  IF ~encoded.some
                 THEN Pushed(Err("UnknownCode", b), "Opening", b, tg)
                 ELSE Pushed(NoResult, "Default", <<>>, tg \o b)
    ELSE IF ByteLen(b) + Utf8Len(ch) > t.max_code_len
      THEN Pushed(Err("CodeTooBig", Append(b, ch)), "Opening", b, tg)
    ELSE Pushed(NoResult, "Opening", Append(b, ch), tg)

\* push_Opening with self.buf.clear() left out after a resolved block
push_Opening_NoClear(t, b, tg, ch) ==
    IF b = <<>> /\ ch = LBrace
      THEN Pushed(NoResult, "Default", b, Append(tg, ch))
    ELSE IF ch = RBrace
      THEN LET encoded == code_to_char(t, b)
           IN  IF ~encoded.some
                 THEN Pushed(Err("UnknownCode", b), "Opening", b, tg)
                 ELSE Pushed(NoResult, "Default", b, tg \o encoded.val)
    ELSE IF ByteLen(b) + Utf8Len(ch) > t.max_code_len
      THEN Pushed(Err("CodeTooBig", Append(b, ch)), "Opening", b, tg)
    ELSE Pushed(NoResult, "Opening", Append(b, ch), tg)

\* push_Opening that drops a block whose code is unknown instead of failing
push_Opening_SkipsUnknown(t, b, tg, ch) ==
    IF b = <<>> /\ ch = LBrace
      THEN Pushed(NoResult, "Default", b, Append(tg, ch))
    ELSE IF ch = RBrace
      THEN LET encoded == code_to_char(t, b)
           IN  IF ~encoded.some
                 THEN Pushed(NoResult, "Default", <<>>, tg)
                 ELSE Pushed(NoResult, "Default", <<>>, tg \o encoded.val)
    ELSE IF ByteLen(b) + Utf8Len(ch) > t.max_code_len
      THEN Pushed(Err("CodeTooBig", Append(b, ch)), "Opening", b, tg)
    ELSE Pushed(NoResult, "Opening", Append(b, ch), tg)

\* Encoder::push, the arms of EncoderState::Opening
push_Opening(t, b, tg, ch) ==
    IF b = <<>> /\ ch = LBrace
      THEN Pushed(NoResult, "Default", b, Append(tg, ch))
    ELSE IF ch = RBrace
      THEN LET encoded == code_to_char(t, b)
           IN  IF ~encoded.some
                 THEN Pushed(Err("UnknownCode", b), "Opening", b, tg)
                 ELSE Pushed(NoResult, "Default", <<>>, tg \o encoded.val)
    ELSE IF ByteLen(b) + Utf8Len(ch) > t.max_code_len
      THEN Pushed(Err("CodeTooBig", Append(b, ch)), "Opening", b, tg)
    ELSE Pushed(NoResult, "Opening", Append(b, ch), tg)

\* push_Closing whose escape arm forgets to go back to Default
push_Closing_StaysClosing(t, b, tg, ch) ==
    IF b = <<>> /\ ch = RBrace
      THEN Pushed(NoResult, "Closing", b, Append(tg, ch))
    ELSE Pushed(Err("UnmatchedClose", <<>>), "Closing", b, tg)

\* push_Closing that takes a lone '}' for a literal
push_Closing_Lenient(t, b, tg, ch) ==
    IF b = <<>> /\ ch = RBrace
      THEN Pushed(NoResult, "Default", b, Append(tg, ch))
    ELSE Pushed(NoResult, "Default", b, tg \o <<RBrace, ch>>)

\* Encoder::push, the arms of EncoderState::Closing
push_Closing(t, b, tg, ch) ==
    IF b = <<>> /\ ch = RBrace
      THEN Pushed(NoResult, "Default", b, Append(tg, ch))
    ELSE Pushed(Err("UnmatchedClose", <<>>), "Closing", b, tg)

\* Encoder::push on the encoder (st, b, tg) bound to table t
push(t, st, b, tg, ch) ==
    CASE st = "Default" -> push_Default(t, b, tg, ch)
      [] st = "Opening" -> push_Opening(t, b, tg, ch)
      [] st = "Closing" -> push_Closing(t, b, tg, ch)

\* finish that accepts an open code block
finish_OpenOk(st) ==
    CASE st = "Default" -> Ok(<<>>)
      [] st = "Opening" -> Ok(<<>>)
      [] st = "Closing" -> Err("UnmatchedClose", <<>>)

\* Encoder::push_str on the encoder e bound to table t: the chars of s are
\* pushed in order up to the first failure
RECURSIVE push_str(_, _, _)
push_str(t, e, s) ==
    IF s = <<>> THEN Pushed(NoResult, e.state, e.buf, e.target)
    ELSE LET r == push(t, e.state, e.buf, e.target, Head(s))
         IN  IF r.err # NoResult THEN r ELSE push_str(t, r, Tail(s))

\* Encoder::finish
finish(st) ==
    CASE st = "Default" -> Ok(<<>>)
      [] st = "Opening" -> Err("UnmatchedOpen", <<>>)
      [] st = "Closing" -> Err("UnmatchedClose", <<>>)

----------------------------------------------------------------------------
(* The inputs of encode *)

\* the chars the bounded inputs are made of: { } a A and the two-byte U+025B
Alphabet == {LBrace, RBrace, 97, 65, 603}

RECURSIVE StringsUpTo(_, _)
StringsUpTo(S, n) ==
    IF n = 0 THEN {<<>>}
    ELSE LET shorter == StringsUpTo(S, n - 1)
         IN  shorter \cup {Append(s, c) : s \in shorter, c \in S}

\* "{" + c + "}" for every code c of the table
BlockInputs == {<<LBrace>> \o TABLE[i][1] \o <<RBrace>> : i \in DOMAIN TABLE}

\* "hello", "h{e}l.o{U} {4}{2}{3}{2}" (test.rs), "{ab", "{unknown_code}"
Hello == <<104, 101, 108, 108, 111>>
SimpleHello == <<104, 123, 101, 125, 108, 46, 111, 123, 85, 125, 32, 123, 52, 125, 123, 50, 125, 123, 51, 125, 123, 50, 125>>
SimpleHelloExpected == <<104, 603, 108, 46, 111, 650, 32, 742, 744, 743, 744>>
MidCode == <<123, 97, 98>>
UnknownCodeInput == <<123, 117, 110, 107, 110, 111, 119, 110, 95, 99, 111, 100, 101, 125>>
Scenarios == {Hello, SimpleHello, MidCode, UnknownCodeInput}

Inputs == StringsUpTo(Alphabet, MaxLen) \cup BlockInputs \cup Scenarios

----------------------------------------------------------------------------
(* lib.rs: encode / encode_to, one step per call made *)

\* the parts of the state that a run of encode or decode does not use
LdIdle ==
    /\ once = "Incomplete"
    /\ builds = 0
    /\ th_pc = <<>>
    /\ th_ret = <<>>
PrIdle == log = {} /\ calls = 0
TwoIdle == encs = <<>>
TrIdle == ty = "GraphemicRaw" /\ attested = FALSE
MdIdle == page = <<>> /\ tx = <<>> /\ ctx = <<>> /\ ssg = <<>>
ApIdle ==
    /\ args = <<>>
    /\ unknown = {}
    /\ ap_pc = "idle"
    /\ parsed = <<>>
    /\ ap_result = [kind |-> "None"]

Init ==
    /\ input \in Inputs
    /\ rest = input
    /\ pc = "new"
    /\ cell = Uninit
    /\ state = "Default"
    /\ buf = <<>>
    /\ target = <<>>
    /\ result = NoResult
    /\ de_input = <<>>
    /\ de_pc = "idle"
    /\ de_stack = <<>>
    /\ de_target = <<>>
    /\ de_result = NoResult
    /\ raw_table = TABLE
    /\ LdIdle /\ PrIdle /\ TwoIdle /\ TrIdle /\ ApIdle /\ MdIdle

\* Encoder::new that does not keep a failed construction in the cell
New_ForgetsFailure ==
    /\ pc = "new"
    /\ LET loaded == GetOrInit(cell, raw_table)
       IN  IF loaded.ok
             THEN /\ cell' = loaded
                  /\ state' = "Default"
                  /\ buf' = <<>>
                  /\ pc' = "push_str"
                  /\ result' = result
             ELSE /\ cell' = Uninit
                  /\ pc' = "done"
                  /\ result' = TableInit(loaded.err)
                  /\ UNCHANGED <<state, buf>>
    /\ UNCHANGED <<input, rest, target>>
    /\ UNCHANGED de_vars
    /\ UNCHANGED <<ld_vars, pr_vars, encs, tr_vars, ap_vars, md_vars>>

\* Encoder::new that takes over the state and the buffer of the last encoder
New_KeepsState ==
    /\ pc = "new"
    /\ cell' = GetOrInit(cell, raw_table)
    /\ IF cell'.ok
         THEN /\ pc' = "push_str"
              /\ result' = result
              /\ UNCHANGED <<state, buf>>
         ELSE /\ pc' = "done"
              /\ result' = TableInit(cell'.err)
              /\ UNCHANGED <<state, buf>>
    /\ UNCHANGED <<input, rest, target>>
    /\ UNCHANGED de_vars
    /\ UNCHANGED <<ld_vars, pr_vars, encs, tr_vars, ap_vars, md_vars>>

\* Encoder::new(target)?
New ==
    /\ pc = "new"
    /\ cell' = GetOrInit(cell, raw_table)
    /\ IF cell'.ok
         THEN /\ state' = "Default"
              /\ buf' = <<>>
              /\ pc' = "push_str"
              /\ result' = result
         ELSE /\ pc' = "done"
              /\ result' = TableInit(cell'.err)
              /\ UNCHANGED <<state, buf>>
    /\ UNCHANGED <<input, rest, target>>
    /\ UNCHANGED de_vars
    /\ UNCHANGED <<ld_vars, pr_vars, encs, tr_vars, ap_vars, md_vars>>

\* the loop of push_str without the `?`: it goes on after a failed push
PushStrStep_KeepsGoing ==
    /\ pc = "push_str"
    /\ rest # <<>>
    /\ LET r == push(cell.table, state, buf, target, Head(rest))
       IN  /\ state' = r.state
           /\ buf' = r.buf
           /\ target' = r.target
           /\ result' = IF r.err = NoResult THEN result ELSE r.err
           /\ rest' = Tail(rest)
           /\ pc' = pc
    /\ UNCHANGED <<input, cell>>
    /\ UNCHANGED de_vars
    /\ UNCHANGED <<ld_vars, pr_vars, encs, tr_vars, ap_vars, md_vars>>

\* one iteration of the loop of Encoder::push_str: self.push(ch)?
PushStrStep ==
    /\ pc = "push_str"
    /\ rest # <<>>
    /\ LET r == push(cell.table, state, buf, target, Head(rest))
       IN  /\ state' = r.state
           /\ buf' = r.buf
           /\ target' = r.target
           /\ IF r.err = NoResult
                THEN /\ rest' = Tail(rest)
                     /\ UNCHANGED <<pc, result>>
                ELSE /\ pc' = "done"
                     /\ result' = r.err
                     /\ rest' = Tail(rest)
    /\ UNCHANGED <<input, cell>>
    /\ UNCHANGED de_vars
    /\ UNCHANGED <<ld_vars, pr_vars, encs, tr_vars, ap_vars, md_vars>>

\* the loop of Encoder::push_str is over: Ok(self)
PushStrReturn ==
    /\ pc = "push_str"
    /\ rest = <<>>
    /\ pc' = "finish"
    /\ UNCHANGED <<input, rest, cell, state, buf, target, result>>
    /\ UNCHANGED de_vars
    /\ UNCHANGED <<ld_vars, pr_vars, encs, tr_vars, ap_vars, md_vars>>

\* encoder.finish()?; Ok(())
Finish ==
    /\ pc = "finish"
    /\ result' = finish(state)
    /\ pc' = "done"
    /\ UNCHANGED <<input, rest, cell, state, buf, target>>
    /\ UNCHANGED de_vars
    /\ UNCHANGED <<ld_vars, pr_vars, encs, tr_vars, ap_vars, md_vars>>

Next == New \/ PushStrStep \/ PushStrReturn \/ Finish

Spec == Init /\ [][Next]_vars

\* encode: Ok(buf) when encode_to returned Ok(()), its error otherwise
encode_result == IF result.kind = "Ok" THEN Ok(target) ELSE result

----------------------------------------------------------------------------
(* Properties of encode *)

BraceFree(s) == \A i \in DOMAIN s : s[i] # LBrace /\ s[i] # RBrace

Codes == {TABLE[i][1] : i \in DOMAIN TABLE}

\* the char listed with code c in the source list
Symbol(c) == TABLE[CHOOSE i \in DOMAIN TABLE : TABLE[i][1] = c][2]

Block(c) == <<LBrace>> \o c \o <<RBrace>>

Returned == pc = "done"

\* C1: an input with neither '{' nor '}' is encoded to itself.
C1_PassThrough ==
    (Returned /\ BraceFree(input)) => encode_result = Ok(input)

C1_Witness ==
    /\ Returned
    /\ input = Hello
    /\ encode_result = Ok(Hello)

\* C2: for every pair (c, s) of the table, encode("{" + c + "}") is Ok(s).
C2_BlockGivesSymbol ==
    \A i \in DOMAIN TABLE :
        (Returned /\ input = Block(TABLE[i][1])) => encode_result = Ok(TABLE[i][2])

C2_Witness ==
    /\ Returned
    /\ \E i \in DOMAIN TABLE :
          /\ Len(TABLE[i][1]) = 3
          /\ input = Block(TABLE[i][1])
          /\ encode_result = Ok(TABLE[i][2])

\* the index of the first '}' of s, 0 when there is none
FirstClose(s) ==
    IF \E i \in DOMAIN s : s[i] = RBrace
      THEN CHOOSE i \in DOMAIN s :
               s[i] = RBrace /\ \A j \in 1..(i - 1) : s[j] # RBrace
      ELSE 0

\* s read as brace-free literal segments and {c} blocks with c a table
\* code: wf tells whether s has that shape, out is s with every block
\* replaced by its symbol
RECURSIVE Replaced(_)
Replaced(s) ==
    IF s = <<>> THEN [wf |-> TRUE, out |-> <<>>]
    ELSE IF Head(s) # LBrace /\ Head(s) # RBrace
      THEN LET r == Replaced(Tail(s))
           IN  [wf |-> r.wf, out |-> <<Head(s)>> \o r.out]
    ELSE IF Head(s) = LBrace /\ FirstClose(s) > 0
            /\ SubSeq(s, 2, FirstClose(s) - 1) \in Codes
      THEN LET r == Replaced(SubSeq(s, FirstClose(s) + 1, Len(s)))
           IN  [wf |-> r.wf,
                out |-> Symbol(SubSeq(s, 2, FirstClose(s) - 1)) \o r.out]
    ELSE [wf |-> FALSE, out |-> <<>>]

\* C3: literal segments are copied and every {c} block is replaced by its
\* symbol, in input order; "h{e}l.o{U} {4}{2}{3}{2}" gives the expected text.
C3_SegmentsAndBlocks ==
    /\ (Returned /\ Replaced(input).wf) => encode_result = Ok(Replaced(input).out)
    /\ (Returned /\ input = SimpleHello) => encode_result = Ok(SimpleHelloExpected)

C3_Witness ==
    /\ Returned
    /\ input = SimpleHello
    /\ Replaced(input).wf
    /\ encode_result = Ok(SimpleHelloExpected)

\* s is a sequence of "{{" and "}}"
RECURSIVE DoubledBraces(_)
DoubledBraces(s) ==
    \/ s = <<>>
    \/ /\ Len(s) >= 2
       /\ s[1] \in {LBrace, RBrace}
       /\ s[2] = s[1]
       /\ DoubledBraces(SubSeq(s, 3, Len(s)))

\* every second char of s
Halved(s) == [i \in 1..(Len(s) \div 2) |-> s[2 * i]]

\* C4: "{{" is encoded to "{" and "}}" to "}"; each doubled brace emits one
\* brace and leaves the encoder in Default with an empty buffer.
C4_EscapedBraces ==
    /\ (Returned /\ input = <<LBrace, LBrace>>) => encode_result = Ok(<<LBrace>>)
    /\ (Returned /\ input = <<RBrace, RBrace>>) => encode_result = Ok(<<RBrace>>)
    /\ (Returned /\ DoubledBraces(input)) =>
          /\ encode_result = Ok(Halved(input))
          /\ state = "Default"
          /\ buf = <<>>

C4_Witness ==
    /\ Returned
    /\ input = <<RBrace, RBrace, LBrace, LBrace>>
    /\ encode_result = Ok(<<RBrace, LBrace>>)
    /\ state = "Default"
    /\ buf = <<>>

\* C5: a block is resolved by exact, case-sensitive equality of the whole
\* buffer with a table code: "aaa" (which starts with the codes "a" and
\* "aa") and "aA" (which differs from "aa" in case only) are unknown, and
\* "aa" gives its own symbol U+0251, not the symbol of "a" twice.
C5_ExactLookup ==
    /\ [](/\ (Returned /\ input = Block(<<97, 97, 97>>)) =>
                 encode_result = Err("UnknownCode", <<97, 97, 97>>)
          /\ (Returned /\ input = Block(<<97, 65>>)) =>
                 encode_result = Err("UnknownCode", <<97, 65>>)
          /\ (Returned /\ input = Block(<<97, 97>>)) =>
                 encode_result = Ok(<<593>>))
    /\ [][(pc = "push_str" /\ rest # <<>> /\ state = "Opening"
              /\ Head(rest) = RBrace) =>
             IF buf \in Codes
               THEN result' = NoResult /\ target' = target \o Symbol(buf)
               ELSE result' = Err("UnknownCode", buf) /\ target' = target]_vars

C5_Witness ==
    /\ Returned
    /\ input = Block(<<97, 97, 97>>)
    /\ {<<97>>, <<97, 97>>} \subseteq Codes
    /\ encode_result = Err("UnknownCode", <<97, 97, 97>>)

\* C6: when every char was pushed without error and the encoder is left in
\* Opening, encode fails with UnmatchedOpen; "{ab" does.
C6_UnmatchedOpen ==
    /\ []((Returned /\ input = MidCode) =>
              encode_result = Err("UnmatchedOpen", <<>>))
    /\ [][(pc = "push_str" /\ rest = <<>> /\ state = "Opening") =>
             (pc' = "finish" /\ state' = "Opening")]_vars
    /\ [][(pc = "finish" /\ state = "Opening") =>
             (Returned' /\ encode_result' = Err("UnmatchedOpen", <<>>))]_vars

C6_Witness ==
    /\ Returned
    /\ input = MidCode
    /\ rest = <<>>
    /\ state = "Opening"
    /\ encode_result = Err("UnmatchedOpen", <<>>)

\* C7: a '}' read in Default and followed by the end of the input or by a
\* char other than '}' makes encode fail with UnmatchedClose; "}" does.
C7_UnmatchedClose ==
    /\ [](/\ (Returned /\ input = <<RBrace>>) =>
                 encode_result = Err("UnmatchedClose", <<>>)
          /\ (Returned /\ input = <<RBrace, LBrace>>) =>
                 encode_result = Err("UnmatchedClose", <<>>))
    /\ [][(pc = "push_str" /\ state = "Default" /\ rest # <<>>
              /\ Head(rest) = RBrace) =>
             (pc' = "push_str" /\ state' = "Closing" /\ rest' = Tail(rest))]_vars
    /\ [][(pc = "push_str" /\ state = "Closing" /\ rest # <<>>
              /\ Head(rest) # RBrace) =>
             (Returned' /\ encode_result' = Err("UnmatchedClose", <<>>))]_vars
    /\ [][(pc = "push_str" /\ state = "Closing" /\ rest = <<>>) =>
             (pc' = "finish" /\ state' = "Closing")]_vars
    /\ [][(pc = "finish" /\ state = "Closing") =>
             (Returned' /\ encode_result' = Err("UnmatchedClose", <<>>))]_vars

C7_Witness ==
    /\ Returned
    /\ input = <<97, RBrace, LBrace>>
    /\ encode_result = Err("UnmatchedClose", <<>>)

\* the largest byte length of a code of the source list
LongestCode ==
    CHOOSE n \in {ByteLen(c) : c \in Codes} : \A c \in Codes : ByteLen(c) <= n

\* the shortest prefix of u that is longer than LongestCode bytes
Overlong(u) ==
    SubSeq(u, 1, CHOOSE k \in 1..Len(u) :
                     /\ ByteLen(SubSeq(u, 1, k)) > LongestCode
                     /\ ByteLen(SubSeq(u, 1, k - 1)) <= LongestCode)

\* input is "{" + u + "}" with u brace-free and not a table code
Inner == SubSeq(input, 2, Len(input) - 1)
UnknownBlock ==
    /\ Len(input) >= 2
    /\ input[1] = LBrace
    /\ input[Len(input)] = RBrace
    /\ BraceFree(Inner)
    /\ Inner \notin Codes

\* C8 as stated: encode("{" + u + "}") fails with UnknownCode(u) for every
\* brace-free u that is not a table code, whatever its length.
C8_UnknownCodeAnyLength ==
    (Returned /\ UnknownBlock) => encode_result = Err("UnknownCode", Inner)

\* C8 amended: it fails with UnknownCode(u) when u is at most max_code_len
\* bytes long, and with CodeTooBig of the shortest overlong prefix of u
\* when u is longer.
C8_UnknownCode ==
    (Returned /\ UnknownBlock) =>
        IF ByteLen(Inner) <= LongestCode
          THEN encode_result = Err("UnknownCode", Inner)
          ELSE encode_result = Err("CodeTooBig", Overlong(Inner))

C8_Witness ==
    /\ Returned
    /\ input = Block(<<97, 603>>)
    /\ ByteLen(Inner) = LongestCode
    /\ encode_result = Err("UnknownCode", <<97, 603>>)

\* C9: push_str stops at the first char whose push fails: the failing push
\* writes nothing and ends the call with its error, what was written
\* before stays in the sink, and no later char is taken.
C9_PushStrStopsAtFailure ==
    /\ []((Returned /\ input = <<97, RBrace, 97, 97, LBrace>>) =>
              /\ result = Err("UnmatchedClose", <<>>)
              /\ target = <<97>>
              /\ rest = <<97, LBrace>>)
    /\ [][(pc = "push_str" /\ result' # NoResult) =>
             (Returned' /\ target' = target /\ rest' = Tail(rest))]_vars
    /\ [][Returned => UNCHANGED vars]_vars

C9_Witness ==
    /\ Returned
    /\ input = <<97, RBrace, 97, 97, LBrace>>
    /\ result = Err("UnmatchedClose", <<>>)
    /\ target = <<97>>
    /\ rest = <<97, LBrace>>

----------------------------------------------------------------------------
(* de.rs and lib.rs: decode / decode_to, one step per call made *)

\* deepest nesting of Decoder::push_str frames the stack has room for
MaxStack == 4

\* longest decode input drawn from DeAlphabet
MaxDeLen == 2

\* a char that extends the grapheme cluster of the char before it: the
\* combining diacritical marks U+0300..U+036F, which hold every combining
\* char of the table
Extend(ch) == ch >= 768 /\ ch <= 879

\* the end of the grapheme cluster of s that starts at index i
RECURSIVE ClusterEnd(_, _)
ClusterEnd(s, i) ==
    IF i < Len(s) /\ Extend(s[i + 1]) THEN ClusterEnd(s, i + 1) ELSE i

\* content.graphemes(true): the extended grapheme clusters of s, in order
RECURSIVE Graphemes(_)
Graphemes(s) ==
    IF s = <<>> THEN <<>>
    ELSE LET e == ClusterEnd(s, 1)
         IN  <<SubSeq(s, 1, e)>> \o Graphemes(SubSeq(s, e + 1, Len(s)))

\* a a-with-diaeresis-mark U+025B U+0308
DeAlphabet == {97, 603, 776}

\* every char of the table, and the short strings over DeAlphabet
DeInputs == {TABLE[i][2] : i \in DOMAIN TABLE} \cup StringsUpTo(DeAlphabet, MaxDeLen)

DeInit ==
    /\ de_input \in DeInputs
    /\ de_pc = "new"
    /\ de_stack = <<>>
    /\ de_target = <<>>
    /\ de_result = NoResult
    /\ cell = Uninit
    /\ input = <<>>
    /\ rest = <<>>
    /\ pc = "idle"
    /\ state = "Default"
    /\ buf = <<>>
    /\ target = <<>>
    /\ result = NoResult
    /\ raw_table = TABLE
    /\ LdIdle /\ PrIdle /\ TwoIdle /\ TrIdle /\ ApIdle /\ MdIdle

\* Decoder::new(target)?; then decoder.push_str(input) is entered
DeNew ==
    /\ de_pc = "new"
    /\ cell' = GetOrInit(cell, raw_table)
    /\ IF cell'.ok
         THEN /\ de_pc' = "push_str"
              /\ de_stack' = <<Graphemes(de_input)>>
              /\ de_result' = de_result
         ELSE /\ de_pc' = "done"
              /\ de_result' = TableInit(cell'.err)
              /\ UNCHANGED de_stack
    /\ UNCHANGED <<de_input, de_target>>
    /\ UNCHANGED en_vars
    /\ UNCHANGED <<ld_vars, pr_vars, encs, tr_vars, ap_vars, md_vars>>

\* one iteration of the loop of Decoder::push_str in the innermost frame:
\* self.push_str(ch) enters a new frame of push_str on the grapheme ch; the
\* process dies of stack exhaustion when there is no room for the frame
DePushStrStep ==
    /\ de_pc = "push_str"
    /\ de_stack # <<>>
    /\ LET top == de_stack[Len(de_stack)]
       IN  /\ top # <<>>
           /\ IF Len(de_stack) < MaxStack
                THEN /\ de_stack' = [de_stack EXCEPT ![Len(de_stack)] = Tail(top)]
                                        \o <<Graphemes(Head(top))>>
                     /\ UNCHANGED <<de_pc, de_result>>
                ELSE /\ de_pc' = "done"
                     /\ de_result' = Err("StackOverflow", <<>>)
                     /\ UNCHANGED de_stack
    /\ UNCHANGED <<de_input, de_target, cell>>
    /\ UNCHANGED en_vars
    /\ UNCHANGED <<ld_vars, pr_vars, encs, tr_vars, ap_vars, md_vars>>

\* the loop of the innermost frame of Decoder::push_str is over: Ok(self);
\* the outermost frame returns to decode_to, which returns Ok(())
DePushStrReturn ==
    /\ de_pc = "push_str"
    /\ de_stack # <<>>
    /\ de_stack[Len(de_stack)] = <<>>
    /\ de_stack' = SubSeq(de_stack, 1, Len(de_stack) - 1)
    /\ IF Len(de_stack) = 1
         THEN de_pc' = "done" /\ de_result' = Ok(<<>>)
         ELSE UNCHANGED <<de_pc, de_result>>
    /\ UNCHANGED <<de_input, de_target, cell>>
    /\ UNCHANGED en_vars
    /\ UNCHANGED <<ld_vars, pr_vars, encs, tr_vars, ap_vars, md_vars>>

DeNext == DeNew \/ DePushStrStep \/ DePushStrReturn

SpecDecode == DeInit /\ [][DeNext]_vars

\* decode: Ok(buf) when decode_to returned Ok(()), its error otherwise
decode_result == IF de_result.kind = "Ok" THEN Ok(de_target) ELSE de_result

DeReturned == de_pc = "done"

\* C10: for every pair (c, s) of the table, decode(s) is Ok(c).
C10_DecodeSymbol ==
    \A i \in DOMAIN TABLE :
        (DeReturned /\ de_input = TABLE[i][2]) => decode_result = Ok(TABLE[i][1])

\* the symbols of the table
Symbols == {TABLE[i][2] : i \in DOMAIN TABLE}

\* C11: for every grapheme z that is not a symbol of the table, decode(z)
\* is Ok(z).
C11_DecodeUnknown ==
    (DeReturned /\ Len(Graphemes(de_input)) = 1 /\ de_input \notin Symbols) =>
        decode_result = Ok(de_input)

----------------------------------------------------------------------------
(* table/mod.rs: the construction of the table over any source list *)

\* most pairs in a source list
MaxPairs == 3

\* the codes "a", "b", "aa" and the chars U+0250, U+0251
SourcePairs == {<<c, s>> : c \in {<<97>>, <<98>>, <<97, 97>>}, s \in {<<592>>, <<593>>}}

SourceLists == StringsUpTo(SourcePairs, MaxPairs)

BuildInit ==
    /\ raw_table \in SourceLists
    /\ cell = Uninit
    /\ input = <<>>
    /\ rest = <<>>
    /\ pc = "idle"
    /\ state = "Default"
    /\ buf = <<>>
    /\ target = <<>>
    /\ result = NoResult
    /\ de_input = <<>>
    /\ de_pc = "idle"
    /\ de_stack = <<>>
    /\ de_target = <<>>
    /\ de_result = NoResult
    /\ LdIdle /\ PrIdle /\ TwoIdle /\ TrIdle /\ ApIdle /\ MdIdle

\* the closure of get_or_init runs and its result is stored in the cell
Build ==
    /\ cell = Uninit
    /\ cell' = BuildTable(raw_table)
    /\ UNCHANGED <<en_vars, de_vars, ld_vars, pr_vars, encs, tr_vars, ap_vars, md_vars>>

BuildNext == Build

SpecBuild == BuildInit /\ [][BuildNext]_vars

\* pair j of s repeats the code or the char of an earlier pair
RepeatsCode(s, j) == \E i \in 1..(j - 1) : s[i][1] = s[j][1]
RepeatsChar(s, j) == \E i \in 1..(j - 1) : s[i][2] = s[j][2]

\* the first pair of s that repeats a code or a char, 0 when none does
FirstOffender(s) ==
    LET off == {j \in DOMAIN s : RepeatsCode(s, j) \/ RepeatsChar(s, j)}
    IN  IF off = {} THEN 0 ELSE CHOOSE j \in off : \A k \in off : j <= k

\* C12: construction fails with DuplicatedCode when a code repeats and with
\* DuplicatedChar when a char repeats; the first offending pair of the list
\* decides the error, its code being checked before its char.
C12_DuplicatesFail ==
    cell # Uninit =>
        LET j == FirstOffender(raw_table)
        IN  IF j = 0 THEN cell.ok
            ELSE /\ ~cell.ok
                 /\ cell.err = IF RepeatsCode(raw_table, j)
                                 THEN [kind |-> "DuplicatedCode", arg |-> raw_table[j][1]]
                                 ELSE [kind |-> "DuplicatedChar", arg |-> raw_table[j][2]]

C12_Witness ==
    /\ raw_table = << <<<<97>>, <<592>>>>, <<<<98>>, <<592>>>>, <<<<97>>, <<593>>>> >>
    /\ ~cell.ok
    /\ cell.err = [kind |-> "DuplicatedChar", arg |-> <<592>>]

----------------------------------------------------------------------------
(* table/mod.rs: concurrent callers of Table::load *)

\* the number of threads that call Table::load
NThreads == 3

Threads == 1..NThreads

\* the canonical list, and the short lists, some of which fail to build
LoadSources == {TABLE} \cup {s \in SourceLists : Len(s) <= 2}

LoadInit ==
    /\ raw_table \in LoadSources
    /\ cell = Uninit
    /\ once = "Incomplete"
    /\ builds = 0
    /\ th_pc = [t \in Threads |-> "call"]
    /\ th_ret = [t \in Threads |-> Uninit]
    /\ input = <<>>
    /\ rest = <<>>
    /\ pc = "idle"
    /\ state = "Default"
    /\ buf = <<>>
    /\ target = <<>>
    /\ result = NoResult
    /\ de_input = <<>>
    /\ de_pc = "idle"
    /\ de_stack = <<>>
    /\ de_target = <<>>
    /\ de_result = NoResult
    /\ PrIdle /\ TwoIdle /\ TrIdle /\ ApIdle /\ MdIdle

LoadFrame == UNCHANGED <<raw_table, en_vars, de_vars, pr_vars, encs, tr_vars, ap_vars, md_vars>>

\* get_or_init, the fast path: the cell is read when the Once is complete
LoadCheck(t) ==
    /\ th_pc[t] = "call"
    /\ th_pc' = [th_pc EXCEPT ![t] = IF once = "Complete" THEN "get" ELSE "initialize"]
    /\ UNCHANGED <<cell, once, builds, th_ret>>
    /\ LoadFrame

\* a thread that would enter the Once although another thread is running it
LoadAcquire_NoLock(t) ==
    /\ th_pc[t] = "initialize"
    /\ IF once = "Complete"
         THEN th_pc' = [th_pc EXCEPT ![t] = "get"] /\ UNCHANGED once
         ELSE th_pc' = [th_pc EXCEPT ![t] = "running"] /\ once' = "Running"
    /\ UNCHANGED <<cell, builds, th_ret>>
    /\ LoadFrame

\* get_or_init, the slow path: the thread that finds the Once incomplete
\* takes it; a thread that finds it running waits; one that finds it
\* complete goes on to read the cell
LoadAcquire(t) ==
    /\ th_pc[t] = "initialize"
    /\ once # "Running"
    /\ IF once = "Complete"
         THEN th_pc' = [th_pc EXCEPT ![t] = "get"] /\ UNCHANGED once
         ELSE th_pc' = [th_pc EXCEPT ![t] = "running"] /\ once' = "Running"
    /\ UNCHANGED <<cell, builds, th_ret>>
    /\ LoadFrame

\* the thread that took the Once runs the closure and stores its result
LoadRun(t) ==
    /\ th_pc[t] = "running"
    /\ builds' = builds + 1
    /\ cell' = BuildTable(raw_table)
    /\ th_pc' = [th_pc EXCEPT ![t] = "complete"]
    /\ UNCHANGED <<once, th_ret>>
    /\ LoadFrame

\* the Once is completed and the waiting threads are let go
LoadComplete(t) ==
    /\ th_pc[t] = "complete"
    /\ once' = "Complete"
    /\ th_pc' = [th_pc EXCEPT ![t] = "get"]
    /\ UNCHANGED <<cell, builds, th_ret>>
    /\ LoadFrame

\* .as_ref().map_err(|err| *err): the shared table or a copy of the error
LoadReturn(t) ==
    /\ th_pc[t] = "get"
    /\ th_ret' = [th_ret EXCEPT ![t] = cell]
    /\ th_pc' = [th_pc EXCEPT ![t] = "returned"]
    /\ UNCHANGED <<cell, once, builds>>
    /\ LoadFrame

LoadNext ==
    \E t \in Threads :
        \/ LoadCheck(t)
        \/ LoadAcquire(t)
        \/ LoadRun(t)
        \/ LoadComplete(t)
        \/ LoadReturn(t)

SpecLoad == LoadInit /\ [][LoadNext]_vars

\* C13: under any interleaving of the callers of Table::load the closure
\* runs at most once, the stored result never changes, and every call
\* returns that one result.
C13_BuiltOnce ==
    /\ [](builds <= 1)
    /\ [](\A t \in Threads, u \in Threads :
              (th_pc[t] = "returned" /\ th_pc[u] = "returned") =>
                  (th_ret[t] = th_ret[u] /\ th_ret[t] # Uninit))
    /\ [][cell # Uninit => cell' = cell]_vars

C13_Witness ==
    /\ \A t \in Threads : th_pc[t] = "returned"
    /\ \A t \in Threads : th_ret[t] = cell
    /\ builds = 1
    /\ ~cell.ok

----------------------------------------------------------------------------
(* lib.rs: a process that calls encode and decode one after the other *)

\* most calls of encode and decode the process makes
MaxCalls == 3

\* "", "a", "{a}", "{a", "}", "{aa}", "{b}", "{{"
ProcInputs ==
    {<<>>, <<97>>, <<LBrace, 97, RBrace>>, <<LBrace, 97>>, <<RBrace>>,
     <<LBrace, 97, 97, RBrace>>, <<LBrace, 98, RBrace>>, <<LBrace, LBrace>>}

\* "", "a"
ProcDeInputs == {<<>>, <<97>>}

\* the canonical list, and the lists of two pairs that start with ("a", U+0250)
ProcSources ==
    {TABLE} \cup {s \in SourceLists : Len(s) = 2 /\ s[1] = <<<<97>>, <<592>>>>}

ProcInit ==
    /\ raw_table \in ProcSources
    /\ cell = Uninit
    /\ log = <<>>
    /\ calls = 0
    /\ input = <<>>
    /\ rest = <<>>
    /\ pc = "idle"
    /\ state = "Default"
    /\ buf = <<>>
    /\ target = <<>>
    /\ result = NoResult
    /\ de_input = <<>>
    /\ de_pc = "idle"
    /\ de_stack = <<>>
    /\ de_target = <<>>
    /\ de_result = NoResult
    /\ LdIdle /\ TwoIdle /\ TrIdle /\ ApIdle /\ MdIdle

\* encode(input) is entered: let mut buf = String::new()
CallEncode ==
    /\ pc = "idle"
    /\ de_pc = "idle"
    /\ calls < MaxCalls
    /\ \E s \in ProcInputs : input' = s /\ rest' = s
    /\ pc' = "new"
    /\ target' = <<>>
    /\ result' = NoResult
    /\ calls' = calls + 1
    /\ UNCHANGED <<cell, state, buf, log>>
    /\ UNCHANGED <<de_vars, ld_vars, encs, tr_vars, ap_vars, md_vars>>

\* encode returns to the caller
EncodeReturns ==
    /\ pc = "done"
    /\ pc' = "idle"
    /\ log' = Append(log, <<"encode", input, encode_result>>)
    /\ UNCHANGED <<input, rest, cell, state, buf, target, result, calls>>
    /\ UNCHANGED <<de_vars, ld_vars, encs, tr_vars, ap_vars, md_vars>>

\* decode(input) is entered: let mut buf = String::new()
CallDecode ==
    /\ pc = "idle"
    /\ de_pc = "idle"
    /\ calls < MaxCalls
    /\ \E s \in ProcDeInputs : de_input' = s
    /\ de_pc' = "new"
    /\ de_stack' = <<>>
    /\ de_target' = <<>>
    /\ de_result' = NoResult
    /\ calls' = calls + 1
    /\ UNCHANGED <<cell, log>>
    /\ UNCHANGED <<en_vars, ld_vars, encs, tr_vars, ap_vars, md_vars>>

\* decode returns to the caller; after a stack exhaustion there is no
\* caller left to return to
DecodeReturns ==
    /\ de_pc = "done"
    /\ de_result.kind # "StackOverflow"
    /\ de_pc' = "idle"
    /\ log' = Append(log, <<"decode", de_input, decode_result>>)
    /\ UNCHANGED <<de_input, de_stack, de_target, de_result, cell, calls>>
    /\ UNCHANGED <<en_vars, ld_vars, encs, tr_vars, ap_vars, md_vars>>

ProcNext ==
    \/ CallEncode
    \/ New
    \/ PushStrStep
    \/ PushStrReturn
    \/ Finish
    \/ EncodeReturns
    \/ CallDecode
    \/ DeNew
    \/ DePushStrStep
    \/ DePushStrReturn
    \/ DecodeReturns

SpecProcess == ProcInit /\ [][ProcNext]_vars

Failed == cell # Uninit /\ ~cell.ok

\* C14: once the construction of the table has failed, every Encoder::new
\* and Decoder::new fails with TableInit of that cached failure, no
\* encoder or decoder comes to exist, nothing is written, and the failure
\* stays in the cell.
C14_FailureIsPermanent ==
    /\ [](\A k \in DOMAIN log :
              log[k][3].kind = "TableInit" =>
                  (Failed /\ log[k][3] = TableInit(cell.err)))
    /\ [](Failed =>
              /\ \A k \in DOMAIN log : log[k][3] = TableInit(cell.err)
              /\ pc \in {"idle", "new", "done"}
              /\ de_pc \in {"idle", "new", "done"}
              /\ target = <<>>
              /\ de_target = <<>>)
    /\ [][(Failed /\ pc = "new") =>
             (pc' = "done" /\ result' = TableInit(cell.err))]_vars
    /\ [][(Failed /\ de_pc = "new") =>
             (de_pc' = "done" /\ de_result' = TableInit(cell.err))]_vars
    /\ [][Failed => cell' = cell]_vars

C14_Witness ==
    /\ Failed
    /\ Len(log) = 3
    /\ \E j \in DOMAIN log, k \in DOMAIN log :
          j < k /\ log[j][1] = "decode" /\ log[k][1] = "encode"
    /\ \A k \in DOMAIN log : log[k][3] = TableInit(cell.err)

\* C15: two calls of encode on the same input return the same result,
\* whatever was called in between.
C15_EncodeDeterministic ==
    \A j \in DOMAIN log, k \in DOMAIN log :
        (log[j][1] = "encode" /\ log[k][1] = "encode" /\ log[j][2] = log[k][2]) =>
            log[j][3] = log[k][3]

C15_Witness ==
    /\ raw_table = TABLE
    /\ Len(log) = 3
    /\ log[1][1] = "encode" /\ log[1][2] = <<97>> /\ log[1][3] = Ok(<<97>>)
    /\ log[2][1] = "encode" /\ log[2][2] = <<LBrace, 97>>
    /\ log[3] = log[1]

----------------------------------------------------------------------------
(* en.rs: two Encoders, each bound to its own sink, used in turns *)

\* longest input of each of the two encoders
MaxTwoLen == 2

TwoInputs == StringsUpTo({LBrace, RBrace, 97}, MaxTwoLen)

TwoInit ==
    /\ encs \in [{1, 2} -> {[input |-> s, rest |-> s, pc |-> "new",
                             state |-> "Default", buf |-> <<>>,
                             target |-> <<>>, result |-> NoResult] :
                                s \in TwoInputs}]
    /\ raw_table = TABLE
    /\ cell = Uninit
    /\ input = <<>>
    /\ rest = <<>>
    /\ pc = "idle"
    /\ state = "Default"
    /\ buf = <<>>
    /\ target = <<>>
    /\ result = NoResult
    /\ de_input = <<>>
    /\ de_pc = "idle"
    /\ de_stack = <<>>
    /\ de_target = <<>>
    /\ de_result = NoResult
    /\ LdIdle /\ PrIdle /\ TrIdle /\ ApIdle /\ MdIdle

TwoFrame == UNCHANGED <<raw_table, en_vars, de_vars, once, builds, th_pc, th_ret,
                        pr_vars, tr_vars, ap_vars, md_vars>>

\* Encoder::new(target)? for encoder e
TwoNew(e) ==
    /\ encs[e].pc = "new"
    /\ cell' = GetOrInit(cell, raw_table)
    /\ encs' = [encs EXCEPT ![e] =
                  IF cell'.ok
                    THEN [@ EXCEPT !.pc = "push_str", !.state = "Default", !.buf = <<>>]
                    ELSE [@ EXCEPT !.pc = "done", !.result = TableInit(cell'.err)]]
    /\ TwoFrame

\* a push of encoder e that works on one buffer common to both encoders
TwoPush_SharedBuf(e) ==
    /\ encs[e].pc = "push_str"
    /\ encs[e].rest # <<>>
    /\ LET r == push(cell.table, encs[e].state, encs[1].buf, encs[e].target,
                     Head(encs[e].rest))
       IN  encs' = [k \in {1, 2} |->
                      IF k = e
                        THEN [encs[e] EXCEPT
                                !.state = r.state, !.buf = r.buf, !.target = r.target,
                                !.rest = Tail(@),
                                !.pc = IF r.err = NoResult THEN @ ELSE "done",
                                !.result = IF r.err = NoResult THEN @ ELSE r.err]
                        ELSE [encs[k] EXCEPT !.buf = r.buf]]
    /\ UNCHANGED cell
    /\ TwoFrame

\* one iteration of the loop of push_str of encoder e: self.push(ch)?
TwoPush(e) ==
    /\ encs[e].pc = "push_str"
    /\ encs[e].rest # <<>>
    /\ LET r == push(cell.table, encs[e].state, encs[e].buf, encs[e].target,
                     Head(encs[e].rest))
       IN  encs' = [encs EXCEPT ![e] =
                      [@ EXCEPT
                         !.state = r.state, !.buf = r.buf, !.target = r.target,
                         !.rest = Tail(@),
                         !.pc = IF r.err = NoResult THEN @ ELSE "done",
                         !.result = IF r.err = NoResult THEN @ ELSE r.err]]
    /\ UNCHANGED cell
    /\ TwoFrame

\* the loop of push_str of encoder e is over
TwoPushReturn(e) ==
    /\ encs[e].pc = "push_str"
    /\ encs[e].rest = <<>>
    /\ encs' = [encs EXCEPT ![e].pc = "finish"]
    /\ UNCHANGED cell
    /\ TwoFrame

\* encoder.finish()? of encoder e
TwoFinish(e) ==
    /\ encs[e].pc = "finish"
    /\ encs' = [encs EXCEPT ![e].pc = "done", ![e].result = finish(encs[e].state)]
    /\ UNCHANGED cell
    /\ TwoFrame

TwoNext ==
    \E e \in {1, 2} :
        \/ TwoNew(e)
        \/ TwoPush(e)
        \/ TwoPushReturn(e)
        \/ TwoFinish(e)

SpecTwo == TwoInit /\ [][TwoNext]_vars

Fresh == [state |-> "Default", buf |-> <<>>, target |-> <<>>]

\* what an encoder that runs alone on s ends with
Alone(s) ==
    LET r == push_str(Built.table, Fresh, s)
    IN  [state |-> r.state, buf |-> r.buf, target |-> r.target,
         result |-> IF r.err # NoResult THEN r.err ELSE finish(r.state)]

\* the chars of its input that encoder e has taken
Taken(e) == SubSeq(encs[e].input, 1, Len(encs[e].input) - Len(encs[e].rest))

\* C16: in every interleaving of the calls of two encoders with distinct
\* sinks, each encoder's sink, state, buffer and error are those of an
\* encoder that runs alone on the same input.
C16_NoInterference ==
    \A e \in {1, 2} :
        /\ encs[e].pc \in {"push_str", "finish"} =>
              LET r == push_str(Built.table, Fresh, Taken(e))
              IN  /\ r.err = NoResult
                  /\ encs[e].state = r.state
                  /\ encs[e].buf = r.buf
                  /\ encs[e].target = r.target
        /\ encs[e].pc = "done" =>
              LET a == Alone(encs[e].input)
              IN  /\ encs[e].result = a.result
                  /\ encs[e].state = a.state
                  /\ encs[e].buf = a.buf
                  /\ encs[e].target = a.target

C16_Witness ==
    /\ encs[1].pc = "done" /\ encs[1].input = <<LBrace, 97>>
    /\ encs[1].result = Err("UnmatchedOpen", <<>>)
    /\ encs[2].pc = "push_str" /\ encs[2].input = <<LBrace, RBrace>>
    /\ encs[2].rest = <<RBrace>>
    /\ encs[2].buf = <<>>

----------------------------------------------------------------------------
(* packs/linguistics/src/transc.rs: TranscFn::call, one step per statement *)

\* longest input of transc
MaxTrLen == 3

Star == 42
Slash == 47
LBracket == 91
RBracket == 93
Less == 60
Greater == 62

TranscriptionType ==
    {"GraphemicRaw", "Graphemic", "Morphophonemic", "Phonemic", "Phonetic"}

\* inputs that end inside a block whose buffer holds a char of a delimiter
TrOpenEnded ==
    {<<LBrace, Slash>>, <<LBrace, Less>>, <<LBrace, Greater>>,
     <<LBrace, LBracket>>, <<LBrace, RBracket>>, <<LBrace, Star>>}

TrInputs == StringsUpTo(Alphabet, MaxTrLen) \cup TrOpenEnded

\* TranscriptionError::Encoding(error), made from an EncodingError by `?`
Encoding(e) == [kind |-> "Encoding", arg |-> <<e.kind>> \o e.arg]

TrInit ==
    /\ input \in TrInputs
    /\ ty \in TranscriptionType
    /\ attested \in BOOLEAN
    /\ rest = <<>>
    /\ pc = "tr_new"
    /\ raw_table = TABLE
    /\ cell = Uninit
    /\ state = "Default"
    /\ buf = <<>>
    /\ target = <<>>
    /\ result = NoResult
    /\ de_input = <<>>
    /\ de_pc = "idle"
    /\ de_stack = <<>>
    /\ de_target = <<>>
    /\ de_result = NoResult
    /\ LdIdle /\ PrIdle /\ TwoIdle /\ ApIdle /\ MdIdle

TrFrame == UNCHANGED <<input, rest, de_vars, ld_vars, pr_vars, encs, tr_vars, ap_vars, md_vars>>

\* the encoder after a call that left r, and where call goes on: `?`
\* returns the error, otherwise the statement at next follows
TrAfter(r, next) ==
    /\ state' = r.state
    /\ buf' = r.buf
    /\ target' = r.target
    /\ IF r.err = NoResult
         THEN pc' = next /\ result' = result
         ELSE pc' = "done" /\ result' = Encoding(r.err)

\* the encoder as push and push_str take it
Enc == [state |-> state, buf |-> buf, target |-> target]

\* let mut buf = String::new(); let mut encoder = Encoder::new(&mut buf)?;
TrNew ==
    /\ pc = "tr_new"
    /\ cell' = GetOrInit(cell, raw_table)
    /\ IF cell'.ok
         THEN /\ state' = "Default"
              /\ buf' = <<>>
              /\ pc' = "tr_star"
              /\ result' = result
         ELSE /\ pc' = "done"
              /\ result' = Encoding(TableInit(cell'.err))
              /\ UNCHANGED <<state, buf>>
    /\ target' = <<>>
    /\ TrFrame

\* TrStar that marks the attested forms instead of the unattested ones
TrStar_Inverted ==
    /\ pc = "tr_star"
    /\ IF attested
         THEN TrAfter(push(cell.table, state, buf, target, Star), "tr_open")
         ELSE TrAfter(Pushed(NoResult, state, buf, target), "tr_open")
    /\ UNCHANGED cell
    /\ TrFrame

\* if !args.attested { encoder.push('*')?; }
TrStar ==
    /\ pc = "tr_star"
    /\ IF ~attested
         THEN TrAfter(push(cell.table, state, buf, target, Star), "tr_open")
         ELSE TrAfter(Pushed(NoResult, state, buf, target), "tr_open")
    /\ UNCHANGED cell
    /\ TrFrame

\* the first match args.ty
TrOpen ==
    /\ pc = "tr_open"
    /\ CASE ty = "GraphemicRaw" ->
              TrAfter(Pushed(NoResult, state, buf, target), "tr_input")
         [] ty = "Graphemic" ->
              TrAfter(push_str(cell.table, Enc, <<LBrace, Less, RBrace>>), "tr_input")
         [] ty = "Morphophonemic" ->
              TrAfter(push_str(cell.table, Enc, <<LBrace, Slash, Slash, RBrace>>), "tr_input")
         [] ty = "Phonemic" ->
              TrAfter(push(cell.table, state, buf, target, Slash), "tr_input")
         [] ty = "Phonetic" ->
              TrAfter(push(cell.table, state, buf, target, LBracket), "tr_input")
    /\ UNCHANGED cell
    /\ TrFrame

\* Display(args.input).encode(DisplayFormat, &mut encoder)?: write_fmt
\* hands the whole &str to push_str and returns its error, if any
TrInput ==
    /\ pc = "tr_input"
    /\ TrAfter(push_str(cell.table, Enc, input), "tr_close")
    /\ UNCHANGED cell
    /\ TrFrame

\* the second match args.ty
TrClose ==
    /\ pc = "tr_close"
    /\ CASE ty = "GraphemicRaw" ->
              TrAfter(Pushed(NoResult, state, buf, target), "tr_finish")
         [] ty = "Graphemic" ->
              TrAfter(push_str(cell.table, Enc, <<LBrace, Greater, RBrace>>), "tr_finish")
         [] ty = "Morphophonemic" ->
              TrAfter(push_str(cell.table, Enc, <<LBrace, Slash, Slash, RBrace>>), "tr_finish")
         [] ty = "Phonemic" ->
              TrAfter(push(cell.table, state, buf, target, Slash), "tr_finish")
         [] ty = "Phonetic" ->
              TrAfter(push(cell.table, state, buf, target, RBracket), "tr_finish")
    /\ UNCHANGED cell
    /\ TrFrame

\* the end of call without encoder.finish()
TrFinish_NoFinish ==
    /\ pc = "tr_finish"
    /\ pc' = "done"
    /\ result' = Ok(<<>>)
    /\ UNCHANGED <<cell, state, buf, target>>
    /\ TrFrame

\* encoder.finish()?; Ok(buf)
TrFinish ==
    /\ pc = "tr_finish"
    /\ pc' = "done"
    /\ result' = IF finish(state).kind = "Ok" THEN Ok(<<>>) ELSE Encoding(finish(state))
    /\ UNCHANGED <<cell, state, buf, target>>
    /\ TrFrame

TrNext == TrNew \/ TrStar \/ TrOpen \/ TrInput \/ TrClose \/ TrFinish

SpecTransc == TrInit /\ [][TrNext]_vars

\* TranscFn::call: Ok(buf) or the error
call_result == IF result.kind = "Ok" THEN Ok(target) ELSE result

\* "*" when the form is not attested
StarOf(att) == IF att THEN <<>> ELSE <<Star>>

\* C17: when encode succeeds on the input with output e, call returns
\* star + open + e + close with ("", "") for GraphemicRaw, U+27E8 and U+27E9
\* for Graphemic, ("/", "/") for Phonemic and ("[", "]") for Phonetic.
C17_Wrapped ==
    (Returned /\ ty # "Morphophonemic" /\ Alone(input).result.kind = "Ok") =>
        LET e == Alone(input).target
            open ==  CASE ty = "GraphemicRaw" -> <<>>
                       [] ty = "Graphemic" -> <<10216>>
                       [] ty = "Phonemic" -> <<Slash>>
                       [] ty = "Phonetic" -> <<LBracket>>
            close == CASE ty = "GraphemicRaw" -> <<>>
                       [] ty = "Graphemic" -> <<10217>>
                       [] ty = "Phonemic" -> <<Slash>>
                       [] ty = "Phonetic" -> <<RBracket>>
        IN  call_result = Ok(StarOf(attested) \o open \o e \o close)

C17_Witness ==
    /\ Returned
    /\ ty = "Graphemic"
    /\ ~attested
    /\ input = <<LBrace, 97, RBrace>>
    /\ call_result = Ok(<<Star, 10216, 592, 10217>>)

\* C18: with Morphophonemic, call succeeds whenever encode succeeds on the
\* input and returns the encoded input between two copies of the
\* Morphophonemic delimiter, after the optional "*".
C18_MorphophonemicWrapped ==
    (Returned /\ ty = "Morphophonemic" /\ Alone(input).result.kind = "Ok") =>
        /\ call_result.kind = "Ok"
        /\ \E n \in 1..Len(call_result.arg) :
              LET d == SubSeq(call_result.arg, Len(StarOf(attested)) + 1,
                              Len(StarOf(attested)) + n)
              IN  call_result.arg = StarOf(attested) \o d \o Alone(input).target \o d

----------------------------------------------------------------------------
(* src/function.rs and transc.rs: the parsing of the arguments of transc *)

\* serde_json::Value, as far as the parsers tell values apart: the kind and
\* the content, written as a string
Json(kind, v) == [t |-> kind, v |-> v]
JsonValues ==
    {Json("null", ""), Json("bool", "true"), Json("bool", "false"),
     Json("string", "Phonemic"), Json("string", "a"), Json("number", "1")}

ArgNames == {"in", "ty", "lg", "att"}

\* the argument maps: any of the names, each with any value
ArgMaps == UNION {[S -> JsonValues] : S \in SUBSET ArgNames}

NoneS == [some |-> FALSE, val |-> ""]
SomeS(v) == [some |-> TRUE, val |-> v]

\* <&str as Arg>::from_json_ref
str_from_json_ref(json) == IF json.t = "string" THEN SomeS(json.v) ELSE NoneS

\* <bool as Arg>::from_json_ref
bool_from_json_ref(json) ==
    IF json.t = "bool" THEN [some |-> TRUE, val |-> json.v = "true"]
    ELSE [some |-> FALSE, val |-> FALSE]

\* <TranscriptionType as Arg>::from_json_ref
ty_from_json_ref(json) ==
    LET s == str_from_json_ref(json)
    IN  IF s.some /\ s.val \in TranscriptionType THEN SomeS(s.val) ELSE NoneS

\* <Option<&str> as Arg>::from_json_ref
opt_str_from_json_ref(json) ==
    IF json.t = "null" THEN [some |-> TRUE, val |-> NoneS]
    ELSE LET s == str_from_json_ref(json)
         IN  IF s.some THEN [some |-> TRUE, val |-> SomeS(s.val)]
             ELSE [some |-> FALSE, val |-> NoneS]

\* A::from_json_ref, for the type A whose A::json_type() is tyname
from_json_ref(tyname, json) ==
    CASE tyname = "string" -> str_from_json_ref(json)
      [] tyname = "boolean" -> bool_from_json_ref(json)
      [] tyname = "transc-type" -> ty_from_json_ref(json)
      [] tyname = "optional string" -> opt_str_from_json_ref(json)

MissingArgument(name) == [kind |-> "MissingArgument", arg |-> name]
MismatchedTypes(name, tyname) == [kind |-> "MismatchedTypes", arg |-> name, ty |-> tyname]

\* what a retrieval leaves: the error ([kind |-> "None"] when it returned
\* Ok), the argument and ArgParser::unknown
Retrieved(err, val, unk) == [err |-> err, val |-> val, unknown |-> unk]

\* ArgParser::retrive_arg::<A>, A being the type named tyname; val is read
\* only when the retrieval returned Ok
retrive_arg(a, unk, name, tyname) ==
    IF name \notin DOMAIN a
      THEN Retrieved(MissingArgument(name), NoneS, unk)
    ELSE IF ~from_json_ref(tyname, a[name]).some
      THEN Retrieved(MismatchedTypes(name, tyname), NoneS, unk)
    ELSE Retrieved([kind |-> "None"], from_json_ref(tyname, a[name]).val, unk \ {name})

\* retrive_arg_with_default that takes the default for a value it cannot read
retrive_arg_with_default_Lenient(a, unk, name, tyname, default) ==
    IF name \in DOMAIN a /\ from_json_ref(tyname, a[name]).some
      THEN Retrieved([kind |-> "None"], from_json_ref(tyname, a[name]).val, unk \ {name})
      ELSE Retrieved([kind |-> "None"], default, unk \ {name})

\* ArgParser::retrive_arg_with_default
retrive_arg_with_default(a, unk, name, tyname, default) ==
    IF name \in DOMAIN a
      THEN IF ~from_json_ref(tyname, a[name]).some
             THEN Retrieved(MismatchedTypes(name, tyname), default, unk)
             ELSE Retrieved([kind |-> "None"], from_json_ref(tyname, a[name]).val, unk \ {name})
      ELSE Retrieved([kind |-> "None"], default, unk \ {name})

\* ArgParser::new(fn_name, args), and TranscArgs::parse is entered
ArgsInit ==
    /\ args \in ArgMaps
    /\ unknown = DOMAIN args
    /\ ap_pc = "in"
    /\ parsed = <<>>
    /\ ap_result = [kind |-> "None"]
    /\ raw_table = TABLE
    /\ cell = Uninit
    /\ input = <<>>
    /\ rest = <<>>
    /\ pc = "idle"
    /\ state = "Default"
    /\ buf = <<>>
    /\ target = <<>>
    /\ result = NoResult
    /\ de_input = <<>>
    /\ de_pc = "idle"
    /\ de_stack = <<>>
    /\ de_target = <<>>
    /\ de_result = NoResult
    /\ LdIdle /\ PrIdle /\ TwoIdle /\ TrIdle /\ MdIdle

ArgsFrame ==
    UNCHANGED <<args, cell, en_vars, de_vars, ld_vars, pr_vars, encs, tr_vars, md_vars>>

\* a statement of parse that retrieved r into the field of that name: `?`
\* returns the error, otherwise the statement at next follows
ParseAfter(r, field, next) ==
    /\ unknown' = r.unknown
    /\ IF r.err.kind = "None"
         THEN /\ parsed' = (field :> r.val) @@ parsed
              /\ ap_pc' = next
              /\ ap_result' = ap_result
         ELSE /\ parsed' = parsed
              /\ ap_pc' = "done"
              /\ ap_result' = r.err

\* let input = args.retrive_arg("in")?;
ParseIn ==
    /\ ap_pc = "in"
    /\ ParseAfter(retrive_arg(args, unknown, "in", "string"),
                  "input", "ty")
    /\ ArgsFrame

\* let ty = args.retrive_arg_with_default("ty", || GraphemicRaw)?;
ParseTy ==
    /\ ap_pc = "ty"
    /\ ParseAfter(retrive_arg_with_default(args, unknown, "ty",
                                           "transc-type", "GraphemicRaw"),
                  "ty", "lg")
    /\ ArgsFrame

\* let lang = args.retrive_arg_with_default("lg", || None)?;
ParseLg ==
    /\ ap_pc = "lg"
    /\ ParseAfter(retrive_arg_with_default(args, unknown, "lg",
                                           "optional string", NoneS),
                  "lang", "att")
    /\ ArgsFrame

\* let attested = args.retrive_arg_with_default("att", || false)?;
ParseAtt ==
    /\ ap_pc = "att"
    /\ ParseAfter(retrive_arg_with_default(args, unknown, "att",
                                           "boolean", FALSE),
                  "attested", "ok")
    /\ ArgsFrame

\* Ok(Self { input, lang, ty, attested })
ParseOk ==
    /\ ap_pc = "ok"
    /\ ap_pc' = "done"
    /\ ap_result' = [kind |-> "Ok"]
    /\ UNCHANGED <<unknown, parsed>>
    /\ ArgsFrame

ArgsNext == ParseIn \/ ParseTy \/ ParseLg \/ ParseAtt \/ ParseOk

SpecArgs == ArgsInit /\ [][ArgsNext]_vars

Present(n) == n \in DOMAIN args

\* the value given for n has the type the argument n has
RightType(n) ==
    CASE n = "in" -> args[n].t = "string"
      [] n = "ty" -> args[n].t = "string" /\ args[n].v \in TranscriptionType
      [] n = "lg" -> args[n].t \in {"null", "string"}
      [] n = "att" -> args[n].t = "bool"

TypeName(n) ==
    CASE n = "in" -> "string"
      [] n = "ty" -> "transc-type"
      [] n = "lg" -> "optional string"
      [] n = "att" -> "boolean"

ParseOrder == <<"in", "ty", "lg", "att">>

\* the positions in ParseOrder of the arguments given with a wrong type
WrongTyped == {k \in DOMAIN ParseOrder : Present(ParseOrder[k]) /\ ~RightType(ParseOrder[k])}

\* C19: a missing "in" fails with MissingArgument("in"); otherwise an
\* argument given with a value of the wrong type fails with MismatchedTypes
\* (the first one in the order in, ty, lg, att) instead of taking its
\* default; otherwise parse returns the values given, GraphemicRaw for an
\* absent "ty", none for an absent "lg" and false for an absent "att".
C19_ParseArgs ==
    ap_pc = "done" =>
        IF ~Present("in") THEN ap_result = MissingArgument("in")
        ELSE IF WrongTyped # {}
          THEN LET k == CHOOSE k \in WrongTyped : \A j \in WrongTyped : k <= j
               IN  ap_result = MismatchedTypes(ParseOrder[k], TypeName(ParseOrder[k]))
        ELSE /\ ap_result = [kind |-> "Ok"]
             /\ parsed["input"] = args["in"].v
             /\ parsed["ty"] = IF Present("ty") THEN args["ty"].v ELSE "GraphemicRaw"
             /\ parsed["lang"] = IF Present("lg") /\ args["lg"].t = "string"
                                   THEN SomeS(args["lg"].v) ELSE NoneS
             /\ parsed["attested"] = IF Present("att") THEN args["att"].v = "true" ELSE FALSE

C19_Witness ==
    /\ ap_pc = "done"
    /\ DOMAIN args = {"in", "att"}
    /\ args["in"] = Json("string", "a")
    /\ args["att"] = Json("string", "a")
    /\ ap_result = MismatchedTypes("att", "boolean")
    /\ DOMAIN parsed = {"input", "ty", "lang"}
    /\ parsed["ty"] = "GraphemicRaw"

----------------------------------------------------------------------------
(* src/linguinput/src/en.rs: an Encoder driven through its public methods *)

\* how many calls are made on the encoder
MaxApiCalls == 4

\* the chars given to push: { } a and the two-byte U+025B
ApiAlphabet == {LBrace, RBrace, 97, 603}

\* the strings given to push_str: empty, a whole block, an open block, a
\* lone close, an overlong code, an escape followed by an open brace, and an
\* unknown code followed by more text
ApiStrings ==
    {<<>>, <<LBrace, 97, RBrace>>, <<LBrace, 97>>, <<97, RBrace>>,
     <<LBrace, 603, 603>>, <<RBrace, RBrace, LBrace>>,
     <<LBrace, 603, RBrace, 97>>}

\* Encoder::new(String::new()) has returned Ok
ApiInit ==
    /\ raw_table = TABLE
    /\ cell = BuildTable(raw_table)
    /\ state = "Default"
    /\ buf = <<>>
    /\ target = <<>>
    /\ result = NoResult
    /\ pc = "api"
    /\ input = <<>>
    /\ rest = <<>>
    /\ de_input = <<>>
    /\ de_pc = "idle"
    /\ de_stack = <<>>
    /\ de_target = <<>>
    /\ de_result = NoResult
    /\ LdIdle /\ PrIdle /\ TwoIdle /\ TrIdle /\ ApIdle /\ MdIdle

ApiFrame ==
    /\ calls' = calls + 1
    /\ UNCHANGED <<input, rest, pc, cell, log>>
    /\ UNCHANGED <<de_vars, ld_vars, encs, tr_vars, ap_vars, md_vars>>

\* what a call leaves in the encoder and returns
ApiAfter(r) ==
    /\ state' = r.state
    /\ buf' = r.buf
    /\ target' = r.target
    /\ result' = IF r.err = NoResult THEN Ok(<<>>) ELSE r.err

\* encoder.push(ch)
ApiPush ==
    /\ pc = "api"
    /\ calls < MaxApiCalls
    /\ \E ch \in ApiAlphabet : ApiAfter(push(cell.table, state, buf, target, ch))
    /\ ApiFrame

\* encoder.push(ch) in an arm that writes to the target, and the write
\* fails: `write!(self.target, ..)?` returns Fmt before the arm changes
\* any field
ApiPushWriteFails ==
    /\ pc = "api"
    /\ calls < MaxApiCalls
    /\ \E ch \in ApiAlphabet :
          push(cell.table, state, buf, target, ch).target # target
    /\ result' = Err("Fmt", <<>>)
    /\ UNCHANGED <<state, buf, target>>
    /\ ApiFrame

\* encoder.push_str(content)
ApiPushStr ==
    /\ pc = "api"
    /\ calls < MaxApiCalls
    /\ \E s \in ApiStrings :
          ApiAfter(push_str(cell.table, Pushed(NoResult, state, buf, target), s))
    /\ ApiFrame

\* encoder.finish(): it takes &mut self and changes no field
ApiFinish ==
    /\ pc = "api"
    /\ calls < MaxApiCalls
    /\ result' = finish(state)
    /\ UNCHANGED <<state, buf, target>>
    /\ ApiFrame

ApiNext == ApiPush \/ ApiPushWriteFails \/ ApiPushStr \/ ApiFinish

SpecApi == ApiInit /\ [][ApiNext]_vars

\* C20: after any sequence of push, push_str and finish calls, failed ones
\* included, the buffer is non-empty only in the state Opening: it is empty
\* whenever the state is Default or Closing.
C20_BufferOnlyInOpening ==
    /\ buf # <<>> => state = "Opening"
    /\ state \in {"Default", "Closing"} => buf = <<>>

\* a failed call (an unknown code at its closing brace) has left the code in
\* the buffer, the state still being Opening
C20_Witness ==
    /\ pc = "api"
    /\ calls > 1
    /\ state = "Opening"
    /\ buf = <<603>>
    /\ result = Err("UnknownCode", buf)

\* C21: in Opening, a char that is neither '}' nor the '{' escape on an
\* empty buffer, and whose UTF-8 length added to the buffer's byte length
\* exceeds max_code_len, fails with CodeTooBig(buffer + char) and is not
\* appended; hence the buffer never holds more than max_code_len bytes.
C21_CodeTooBig ==
    /\ ByteLen(buf) <= cell.table.max_code_len
    /\ \A ch \in ApiAlphabet :
          (/\ state = "Opening"
           /\ ch # RBrace
           /\ ~(ch = LBrace /\ buf = <<>>)
           /\ ByteLen(buf) + Utf8Len(ch) > cell.table.max_code_len) =>
              push(cell.table, state, buf, target, ch)
                  = Pushed(Err("CodeTooBig", Append(buf, ch)), "Opening", buf, target)

\* a second two-byte char was refused: the buffer still holds the first
C21_Witness ==
    /\ pc = "api"
    /\ state = "Opening"
    /\ buf = <<603>>
    /\ result = Err("CodeTooBig", <<603, 603>>)

\* C22: a push that returns an error (UnknownCode, CodeTooBig,
\* UnmatchedClose, or Fmt from the target) leaves state and buf as they
\* were; only a push that returns Ok changes them.
C22_FailedPushChangesNothing ==
    [][(ApiPush \/ ApiPushWriteFails) =>
          (result'.kind # "Ok" => (state' = state /\ buf' = buf))]_vars

\* the target refused the char of a known code: the block is still open
C22_Witness ==
    /\ pc = "api"
    /\ result = Err("Fmt", <<>>)
    /\ state = "Opening"
    /\ buf = <<97>>

\* C23: in Opening with a non-empty buffer, '{' is a code char like any
\* other: it is appended to the buffer, or refused with CodeTooBig when the
\* code would be too long; nothing is written and the state stays Opening.
C23_BraceInsideBlock ==
    (state = "Opening" /\ buf # <<>>) =>
        LET r == push(cell.table, state, buf, target, LBrace)
        IN  /\ r.state = "Opening"
            /\ r.target = target
            /\ IF ByteLen(buf) + Utf8Len(LBrace) > cell.table.max_code_len
                 THEN r.err = Err("CodeTooBig", Append(buf, LBrace)) /\ r.buf = buf
                 ELSE r.err = NoResult /\ r.buf = Append(buf, LBrace)

\* '{' was pushed after "{a" and went into the buffer
C23_Witness ==
    /\ pc = "api"
    /\ state = "Opening"
    /\ buf = <<97, LBrace>>
    /\ target = <<>>
    /\ result = Ok(<<>>)

----------------------------------------------------------------------------
(* src/linguinput/src/en.rs: Encode::render_encoded, for a value whose
   encode pushes its text into the encoder *)

\* longest text of a rendered value
MaxRenderLen == 3

RenderInputs == StringsUpTo(Alphabet, MaxRenderLen)

RenderInit ==
    /\ input \in RenderInputs
    /\ rest = input
    /\ pc = "r_new"
    /\ raw_table = TABLE
    /\ cell = Uninit
    /\ state = "Default"
    /\ buf = <<>>
    /\ target = <<>>
    /\ result = NoResult
    /\ de_input = <<>>
    /\ de_pc = "idle"
    /\ de_stack = <<>>
    /\ de_target = <<>>
    /\ de_result = NoResult
    /\ LdIdle /\ PrIdle /\ TwoIdle /\ TrIdle /\ ApIdle /\ MdIdle

RenderFrame == UNCHANGED <<input, de_vars, ld_vars, pr_vars, encs, tr_vars, ap_vars, md_vars>>

\* let mut buf = String::new(); let mut encoder = Encoder::new(&mut buf)?;
RenderNew ==
    /\ pc = "r_new"
    /\ cell' = GetOrInit(cell, raw_table)
    /\ IF cell'.ok
         THEN /\ state' = "Default"
              /\ buf' = <<>>
              /\ pc' = "r_encode"
              /\ result' = result
         ELSE /\ pc' = "done"
              /\ result' = TableInit(cell'.err)
              /\ UNCHANGED <<state, buf>>
    /\ target' = <<>>
    /\ UNCHANGED rest
    /\ RenderFrame

\* self.encode(format, &mut encoder)?: the value pushes the next char of its
\* text; `?` returns the error of a failed push
RenderEncodeStep ==
    /\ pc = "r_encode"
    /\ rest # <<>>
    /\ LET r == push(cell.table, state, buf, target, Head(rest))
       IN  /\ state' = r.state
           /\ buf' = r.buf
           /\ target' = r.target
           /\ rest' = Tail(rest)
           /\ IF r.err = NoResult
                THEN UNCHANGED <<pc, result>>
                ELSE pc' = "done" /\ result' = r.err
    /\ UNCHANGED cell
    /\ RenderFrame

\* encode has returned Ok(()): Ok(buf), the encoder is dropped as it is
RenderReturn ==
    /\ pc = "r_encode"
    /\ rest = <<>>
    /\ pc' = "done"
    /\ result' = Ok(<<>>)
    /\ UNCHANGED <<rest, cell, state, buf, target>>
    /\ RenderFrame

RenderNext == RenderNew \/ RenderEncodeStep \/ RenderReturn

SpecRender == RenderInit /\ [][RenderNext]_vars

\* render_encoded: Ok(buf) or the error
render_result == IF result.kind = "Ok" THEN Ok(target) ELSE result

\* encode(s), computed by the sequential encoder
EncodeOf(s) == IF Alone(s).result.kind = "Ok" THEN Ok(Alone(s).target) ELSE Alone(s).result

\* C24: render_encoded of a value that pushes the text t returns what
\* encode(t) returns: Ok(s) exactly when encode(t) is Ok(s), and an error
\* when t leaves a block open or a '}' unmatched.
C24_RenderAgreesWithEncode ==
    Returned => render_result = EncodeOf(input)

----------------------------------------------------------------------------
(* src/linguinput/src/en.rs: Encoder::write_fmt. Here input holds the
   pieces the formatter writes, in order, rest the pieces it has not written
   yet and result the field Adapter::result *)

\* most pieces in one write_fmt
MaxPieces == 3

\* the pieces: empty, a literal, an open block, the close of a block, an
\* unknown block and a lone close followed by a literal
FmtPieces ==
    {<<>>, <<97>>, <<LBrace, 97>>, <<RBrace>>, <<LBrace, 603, RBrace>>, <<RBrace, 97>>}

FmtInputs == StringsUpTo(FmtPieces, MaxPieces)

\* what Adapter::write_str leaves: the encoder, Adapter::result, and whether
\* it returned Ok(()) to the formatter
Written(e, res, ok) == [enc |-> e, result |-> res, ok |-> ok]

\* Adapter::write_str without the check of self.result
write_str_NoGuard(t, e, res, content) ==
    LET r == push_str(t, e, content)
    IN  IF r.err # NoResult THEN Written(r, r.err, FALSE) ELSE Written(r, res, TRUE)

\* Adapter::write_str on the encoder e bound to table t, Adapter::result
\* being res
write_str(t, e, res, content) ==
    IF res.kind # "Ok" THEN Written(e, res, FALSE)
    ELSE LET r == push_str(t, e, content)
         IN  IF r.err # NoResult THEN Written(r, r.err, FALSE) ELSE Written(r, res, TRUE)

\* a fresh encoder is about to be given the pieces by write_fmt
FmtInit ==
    /\ input \in FmtInputs
    /\ rest = input
    /\ pc = "w_enter"
    /\ raw_table = TABLE
    /\ cell = BuildTable(raw_table)
    /\ state = "Default"
    /\ buf = <<>>
    /\ target = <<>>
    /\ result = NoResult
    /\ de_input = <<>>
    /\ de_pc = "idle"
    /\ de_stack = <<>>
    /\ de_target = <<>>
    /\ de_result = NoResult
    /\ LdIdle /\ PrIdle /\ TwoIdle /\ TrIdle /\ ApIdle /\ MdIdle

FmtFrame == UNCHANGED <<input, cell, de_vars, ld_vars, pr_vars, encs, tr_vars, ap_vars, md_vars>>

\* let mut adapter = Adapter { encoder: self, result: Ok(()) };
FmtEnter ==
    /\ pc = "w_enter"
    /\ pc' = "w_write"
    /\ result' = Ok(<<>>)
    /\ UNCHANGED <<rest, state, buf, target>>
    /\ FmtFrame

\* the formatter hands its next piece to adapter.write_str
FmtWriteStr ==
    /\ pc = "w_write"
    /\ rest # <<>>
    /\ LET w == write_str(cell.table, Enc, result, Head(rest))
       IN  /\ state' = w.enc.state
           /\ buf' = w.enc.buf
           /\ target' = w.enc.target
           /\ result' = w.result
    /\ rest' = Tail(rest)
    /\ UNCHANGED pc
    /\ FmtFrame

\* the formatter returns as soon as write_str has returned Err, as
\* core::fmt::write does, leaving its other pieces unwritten
FmtGiveUp ==
    /\ pc = "w_write"
    /\ result.kind # "Ok"
    /\ rest # <<>>
    /\ pc' = "done"
    /\ UNCHANGED <<rest, state, buf, target, result>>
    /\ FmtFrame

\* let _ = adapter.write_fmt(arguments); adapter.result: every piece was
\* handed over
FmtReturn ==
    /\ pc = "w_write"
    /\ rest = <<>>
    /\ pc' = "done"
    /\ UNCHANGED <<rest, state, buf, target, result>>
    /\ FmtFrame

FmtNext == FmtEnter \/ FmtWriteStr \/ FmtGiveUp \/ FmtReturn

SpecFmt == FmtInit /\ [][FmtNext]_vars

\* the pieces ps one after the other
RECURSIVE Flatten(_)
Flatten(ps) == IF ps = <<>> THEN <<>> ELSE Head(ps) \o Flatten(Tail(ps))

\* C25: write_fmt returns the first error raised while the chars of the
\* pieces are pushed in order, and Ok only when all of them were pushed
\* without error; once a piece has failed the encoder is not given any
\* char of a later piece: its fields and the recorded error stay as the
\* failure left them.
C25_WriteFmtFirstError ==
    /\ [](Returned =>
            LET r == push_str(cell.table, Fresh, Flatten(input))
            IN  /\ result = IF r.err = NoResult THEN Ok(<<>>) ELSE r.err
                /\ Enc = [state |-> r.state, buf |-> r.buf, target |-> r.target])
    /\ [][(pc = "w_write" /\ result.kind # "Ok") =>
            UNCHANGED <<state, buf, target, result>>]_vars

\* the second piece failed on an unknown code and the formatter went on:
\* the third piece was not pushed
C25_Witness ==
    /\ Returned
    /\ input = <<<<97>>, <<LBrace, 603, RBrace>>, <<97>>>>
    /\ rest = <<>>
    /\ result = Err("UnknownCode", <<603>>)
    /\ buf = <<603>>
    /\ target = <<97>>

----------------------------------------------------------------------------
(* src/linguinput/src/de.rs: Decoder::push called on its own *)

\* how many calls of push are made on the decoder
MaxDePushCalls == 3

\* the graphemes given to push: three symbols of the table (U+025B of code
\* "e", U+0250 of code "a", the combining U+0308) and three that are not
\* (a, e, and a with the combining U+0308)
DePushInputs == {<<603>>, <<592>>, <<776>>, <<97>>, <<101>>, <<97, 776>>}

\* Decoder::push that wraps the code in braces
de_push_Braced(t, tg, g) ==
    IF char_to_code(t, g).some
      THEN tg \o <<LBrace>> \o char_to_code(t, g).val \o <<RBrace>>
      ELSE tg \o g

\* Decoder::push on the target tg of a decoder bound to table t: the target
\* after the write
de_push(t, tg, g) ==
    IF char_to_code(t, g).some THEN tg \o char_to_code(t, g).val ELSE tg \o g

\* Decoder::new(String::new()) has returned Ok
DePushInit ==
    /\ raw_table = TABLE
    /\ cell = BuildTable(raw_table)
    /\ de_input = <<>>
    /\ de_pc = "de_api"
    /\ de_stack = <<>>
    /\ de_target = <<>>
    /\ de_result = NoResult
    /\ input = <<>>
    /\ rest = <<>>
    /\ pc = "idle"
    /\ state = "Default"
    /\ buf = <<>>
    /\ target = <<>>
    /\ result = NoResult
    /\ LdIdle /\ PrIdle /\ TwoIdle /\ TrIdle /\ ApIdle /\ MdIdle

DePushFrame ==
    /\ calls' = calls + 1
    /\ UNCHANGED <<de_pc, de_stack, cell, log>>
    /\ UNCHANGED <<en_vars, ld_vars, encs, tr_vars, ap_vars, md_vars>>

\* decoder.push(g), the write succeeds; de_input keeps the argument
DePush ==
    /\ de_pc = "de_api"
    /\ calls < MaxDePushCalls
    /\ \E g \in DePushInputs :
          /\ de_input' = g
          /\ de_target' = de_push(cell.table, de_target, g)
    /\ de_result' = Ok(<<>>)
    /\ DePushFrame

\* decoder.push(g), the write to the target fails: `write!(..)?` returns Fmt
DePushWriteFails ==
    /\ de_pc = "de_api"
    /\ calls < MaxDePushCalls
    /\ \E g \in DePushInputs : de_input' = g
    /\ de_result' = Err("Fmt", <<>>)
    /\ UNCHANGED de_target
    /\ DePushFrame

DePushNext == DePush \/ DePushWriteFails

SpecDePush == DePushInit /\ [][DePushNext]_vars

\* the code listed with the symbol g in the source list
CodeOf(g) == TABLE[CHOOSE i \in DOMAIN TABLE : TABLE[i][2] = g][1]

\* C26: push(g) appends to the target the bare code of g, without braces,
\* when g is a symbol of the table, and g itself when it is not, and
\* returns Ok; it fails only with the error of the target, having written
\* nothing; this holds of every symbol of the table.
C26_PushWritesBareCode ==
    /\ [](\A i \in DOMAIN TABLE :
            de_push(cell.table, de_target, TABLE[i][2]) = de_target \o TABLE[i][1])
    /\ [][\/ /\ de_result' = Ok(<<>>)
             /\ de_target' = de_target \o (IF de_input' \in Symbols
                                             THEN CodeOf(de_input') ELSE de_input')
          \/ /\ de_result' = Err("Fmt", <<>>)
             /\ de_target' = de_target]_vars

\* "a" went through as it is and U+025B was written as its code "e"
C26_Witness ==
    /\ de_pc = "de_api"
    /\ calls = 2
    /\ de_input = <<603>>
    /\ de_target = <<97, 101>>
    /\ de_result = Ok(<<>>)

----------------------------------------------------------------------------
(* de.rs: Decoder::push_str, under SpecDecode *)

\* C27: push_str returns on every input (having called push once for each
\* grapheme cluster, in order): decode never ends by exhausting the stack.
C27_PushStrTerminates ==
    DeReturned => de_result = Ok(<<>>)

----------------------------------------------------------------------------
(* table/mod.rs: the table that a successful construction leaves *)

\* the largest byte length of a code of the list src, 0 for the empty list
LargestCodeLen(src) ==
    IF src = <<>> THEN 0
    ELSE LET lens == {ByteLen(src[i][1]) : i \in DOMAIN src}
         IN  CHOOSE n \in lens : \A m \in lens : m <= n

\* the table t holds the pairs of src and nothing else, in both directions
Inverse(t, src) ==
    /\ \A i \in DOMAIN src :
          /\ code_to_char(t, src[i][1]) = Some(src[i][2])
          /\ char_to_code(t, src[i][2]) = Some(src[i][1])
    /\ Cardinality(DOMAIN t.code_to_char) = Len(src)
    /\ Cardinality(DOMAIN t.char_to_code) = Len(src)
    /\ t.max_code_len = LargestCodeLen(src)

\* C28: when the construction succeeds, code_to_char(c) = s and
\* char_to_code(s) = c for every pair (c, s) of the source list, each map
\* has one entry per pair, and max_code_len is the largest byte length of a
\* code; so it is for every source list and for raw::TABLE.
C28_MutuallyInverse ==
    /\ (cell # Uninit /\ cell.ok) => Inverse(cell.table, raw_table)
    /\ Built.ok /\ Inverse(Built.table, TABLE)

\* a list of two pairs, the longer code first, was built
C28_Witness ==
    /\ cell # Uninit
    /\ cell.ok
    /\ raw_table = << <<<<97, 97>>, <<592>>>>, <<<<97>>, <<593>>>> >>
    /\ cell.table.max_code_len = 2

\* C29: raw::TABLE repeats no code and no symbol, so every call of
\* Table::load() on it returns Ok: the cell never holds DuplicatedCode or
\* DuplicatedChar.
C29_CanonicalTableLoads ==
    raw_table = TABLE =>
        /\ FirstOffender(TABLE) = 0
        /\ cell # Uninit => cell.ok
        /\ \A t \in Threads : th_pc[t] = "returned" => th_ret[t].ok

\* every caller has returned the table of raw::TABLE
C29_Witness ==
    /\ raw_table = TABLE
    /\ \A t \in Threads : th_pc[t] = "returned" /\ th_ret[t].ok
    /\ Cardinality(DOMAIN cell.table.code_to_char) = Len(TABLE)

----------------------------------------------------------------------------
(* transc.rs: malformed input under SpecTransc *)

\* C30: for every style and every value of attested, call returns an error
\* whenever encode(input) returns an error: the delimiters pushed before
\* and after the input through the same encoder never turn a malformed
\* input into a result.
C30_MalformedInputFails ==
    (Returned /\ EncodeOf(input).kind # "Ok") => call_result.kind # "Ok"

\* the input "{" leaves the block open; the '{' of the closing delimiter
\* "{>}" is taken for the escape and its '}' is left unmatched
C30_Witness ==
    /\ Returned
    /\ input = <<LBrace>>
    /\ ty = "Graphemic"
    /\ attested
    /\ EncodeOf(input) = Err("UnmatchedOpen", <<>>)
    /\ call_result = Encoding(Err("UnmatchedClose", <<>>))
    /\ target = <<10216, LBrace, Greater>>

----------------------------------------------------------------------------
(* src/function.rs: invoke_fn, the function being transc *)

\* names that transc does not take
ExtraNames == {"x", "y"}

\* the argument maps given to invoke_fn: those of ArgMaps, with any of the
\* extra names added (parse never reads their values)
InvokeMaps ==
    {m @@ [k \in E |-> Json("null", "")] : m \in ArgMaps, E \in SUBSET ExtraNames}

\* ArgError::UnknownArguments: the message lists the names left in unknown
UnknownArguments(names) == [kind |-> "UnknownArguments", names |-> names]

\* InvokeError::Arg and InvokeError::Execution
InvokeArg(e) == [kind |-> "Arg", err |-> e]
Execution == [kind |-> "Execution"]

\* ArgParser::new(fn_name, args), and Args::parse is entered
InvokeInit ==
    /\ args \in InvokeMaps
    /\ unknown = DOMAIN args
    /\ ap_pc = "in"
    /\ parsed = <<>>
    /\ ap_result = [kind |-> "None"]
    /\ raw_table = TABLE
    /\ cell = Uninit
    /\ input = <<>>
    /\ rest = <<>>
    /\ pc = "idle"
    /\ state = "Default"
    /\ buf = <<>>
    /\ target = <<>>
    /\ result = NoResult
    /\ de_input = <<>>
    /\ de_pc = "idle"
    /\ de_stack = <<>>
    /\ de_target = <<>>
    /\ de_result = NoResult
    /\ LdIdle /\ PrIdle /\ TwoIdle /\ TrIdle /\ MdIdle

InvokeFrame ==
    UNCHANGED <<args, unknown, parsed, cell, log, en_vars, de_vars, ld_vars, encs,
                tr_vars, md_vars>>

\* the end of invoke_fn that calls the function without arg_parser.finish()
InvokeFinish_Skipped ==
    /\ ap_pc = "ok"
    /\ ap_pc' = "call"
    /\ UNCHANGED <<ap_result, calls>>
    /\ InvokeFrame

\* parse returned Ok; arg_parser.finish().map_err(InvokeError::Arg)?
InvokeFinish ==
    /\ ap_pc = "ok"
    /\ IF unknown = {}
         THEN ap_pc' = "call" /\ ap_result' = ap_result
         ELSE ap_pc' = "done" /\ ap_result' = InvokeArg(UnknownArguments(unknown))
    /\ UNCHANGED calls
    /\ InvokeFrame

\* fun.call(parsed_args).map_err(InvokeError::Execution): calls counts the
\* invocations of fun.call, which returns Ok or its own error
InvokeCall ==
    /\ ap_pc = "call"
    /\ ap_pc' = "done"
    /\ calls' = calls + 1
    /\ ap_result' \in {[kind |-> "Ok"], Execution}
    /\ InvokeFrame

InvokeNext == ParseIn \/ ParseTy \/ ParseLg \/ ParseAtt \/ InvokeFinish \/ InvokeCall

SpecInvoke == InvokeInit /\ [][InvokeNext]_vars

\* what invoke_fn returns: `.map_err(InvokeError::Arg)?` wraps an error of
\* parse
invoke_result ==
    IF ap_result.kind \in {"MissingArgument", "MismatchedTypes"}
      THEN InvokeArg(ap_result) ELSE ap_result

\* C31: fun.call is invoked at most once, and only when parse succeeded and
\* every key of the map was retrieved; when parse fails invoke_fn returns
\* Arg(that error), even if the map has unexpected keys too; when parse
\* succeeds and a key was not retrieved it returns Arg(UnknownArguments)
\* naming the keys left, without calling the function.
C31_UnknownArgumentsRejected ==
    /\ calls <= 1
    /\ calls = 1 => (unknown = {} /\ DOMAIN args \subseteq ArgNames)
    /\ ap_pc = "done" =>
          IF ~Present("in") \/ WrongTyped # {}
            THEN /\ invoke_result.kind = "Arg"
                 /\ invoke_result.err.kind \in {"MissingArgument", "MismatchedTypes"}
                 /\ calls = 0
          ELSE IF DOMAIN args \ ArgNames # {}
            THEN /\ invoke_result = InvokeArg(UnknownArguments(DOMAIN args \ ArgNames))
                 /\ calls = 0
          ELSE calls = 1 /\ invoke_result.kind \in {"Ok", "Execution"}

\* a well-typed call with one unexpected key was refused before the call
C31_Witness ==
    /\ ap_pc = "done"
    /\ DOMAIN args = {"in", "att", "x"}
    /\ args["in"] = Json("string", "a")
    /\ args["att"] = Json("bool", "true")
    /\ invoke_result = InvokeArg(UnknownArguments({"x"}))
    /\ calls = 0

----------------------------------------------------------------------------
(* src/core/src/markdown/page.rs: RawPageParts::split *)

\* longest page drawn from SplitAlphabet
MaxPageLen == 6

Plus == 43
Newline == 10
Space == 32

\* METADATA_TERMINATOR
METADATA_TERMINATOR == <<Plus, Plus, Plus>>

\* char::is_whitespace: the chars of the Unicode property White_Space
IsWhitespace(ch) ==
    \/ ch \in 9..13
    \/ ch \in {32, 133, 160, 5760, 8232, 8233, 8239, 8287, 12288}
    \/ ch \in 8192..8202

RECURSIVE TrimStart(_)
TrimStart(s) == IF s # <<>> /\ IsWhitespace(Head(s)) THEN TrimStart(Tail(s)) ELSE s

RECURSIVE TrimEnd(_)
TrimEnd(s) ==
    IF s # <<>> /\ IsWhitespace(s[Len(s)]) THEN TrimEnd(SubSeq(s, 1, Len(s) - 1)) ELSE s

\* a trim that strips the end of the line only
Trim_EndOnly(s) == TrimEnd(s)

\* str::trim
Trim(s) == TrimStart(TrimEnd(s))

\* code[from ..].find('\n'): the offset from `from` of the first newline at
\* or after it, -1 for None (offsets count from 0, as in the code)
Find(code, from) ==
    LET at == {i \in from..(Len(code) - 1) : code[i + 1] = Newline}
    IN  IF at = {} THEN -1 ELSE (CHOOSE i \in at : \A j \in at : i <= j) - from

\* code[a .. b]
Slice(code, a, b) == SubSeq(code, a + 1, b)

\* + newline space a
SplitAlphabet == {Plus, Newline, Space, 97}

\* "a\n+++\na", and a page whose first terminator is padded and followed by
\* a second one
SplitScenarios ==
    {<<97, Newline, Plus, Plus, Plus, Newline, 97>>,
     <<97, Newline, Space, Plus, Plus, Plus, Space, Newline, Plus, Plus, Plus, Newline>>}

SplitInputs == StringsUpTo(SplitAlphabet, MaxPageLen) \cup SplitScenarios

\* the rest of the state while a page is split
OthersIdle ==
    /\ raw_table = TABLE
    /\ cell = Uninit
    /\ input = <<>>
    /\ rest = <<>>
    /\ pc = "idle"
    /\ state = "Default"
    /\ buf = <<>>
    /\ target = <<>>
    /\ result = NoResult
    /\ de_input = <<>>
    /\ de_pc = "idle"
    /\ de_stack = <<>>
    /\ de_target = <<>>
    /\ de_result = NoResult
    /\ LdIdle /\ PrIdle /\ TwoIdle /\ TrIdle /\ ApIdle

OthersFrame ==
    UNCHANGED <<cell, en_vars, de_vars, ld_vars, pr_vars, encs, tr_vars, ap_vars>>

\* split(code) is entered: let mut start = 0;
SplitInit ==
    /\ page \in {[code |-> c, start |-> 0, pc |-> "loop", result |-> "None",
                  metadata |-> <<>>, content |-> <<>>] : c \in SplitInputs}
    /\ tx = <<>> /\ ctx = <<>> /\ ssg = <<>>
    /\ OthersIdle

\* if start >= code.len() { Err(MissingMetadataTerminator)?; }
SplitMissing ==
    /\ page.pc = "loop"
    /\ page.start >= Len(page.code)
    /\ page' = [page EXCEPT !.pc = "done", !.result = "MissingMetadataTerminator"]
    /\ UNCHANGED <<tx, ctx, ssg>>
    /\ OthersFrame

\* one iteration of the loop with a line left: the line from start to the
\* end of its newline, or to the end of the page, is the terminator and
\* split returns, or the next line is looked at
SplitLine ==
    /\ page.pc = "loop"
    /\ page.start < Len(page.code)
    /\ LET pos == Find(page.code, page.start)
           end == IF pos = -1 THEN Len(page.code) ELSE page.start + pos + 1
           line == Slice(page.code, page.start, end)
       IN  IF Trim(line) = METADATA_TERMINATOR
             THEN page' = [page EXCEPT !.pc = "done", !.result = "Ok",
                                       !.metadata = Slice(page.code, 0, page.start),
                                       !.content = Slice(page.code, end, Len(page.code))]
             ELSE page' = [page EXCEPT !.start = end]
    /\ UNCHANGED <<tx, ctx, ssg>>
    /\ OthersFrame

SplitNext == SplitMissing \/ SplitLine

SpecSplit == SplitInit /\ [][SplitNext]_vars

\* the offsets at which the lines of c start
LineStarts(c) == {p \in 0..(Len(c) - 1) : p = 0 \/ c[p] = Newline}

\* the offset after the line of c that starts at p, its newline included
LineEnd(c, p) ==
    LET nl == {q \in (p + 1)..Len(c) : c[q] = Newline}
    IN  IF nl = {} THEN Len(c) ELSE CHOOSE q \in nl : \A r \in nl : q <= r

LineAt(c, p) == Slice(c, p, LineEnd(c, p))

\* the line is "+++", with or without its newline
ExactTerminator(line) ==
    line = METADATA_TERMINATOR \/ line = Append(METADATA_TERMINATOR, Newline)

\* the line is "+++" with nothing but whitespace around it
PaddedTerminator(line) ==
    LET solid == {k \in DOMAIN line : ~IsWhitespace(line[k])}
    IN  /\ Cardinality(solid) = 3
        /\ \E a \in DOMAIN line : solid = a..(a + 2)
        /\ \A k \in solid : line[k] = Plus

\* split has returned what splitting at the first of the line starts in
\* ends gives: everything before that line and everything after it
SplitsAtFirst(ends) ==
    page.pc = "done" =>
        IF ends = {}
          THEN page.result = "MissingMetadataTerminator"
          ELSE LET p == CHOOSE p \in ends : \A q \in ends : p <= q
               IN  /\ page.result = "Ok"
                   /\ page.metadata = Slice(page.code, 0, p)
                   /\ page.content = Slice(page.code, LineEnd(page.code, p), Len(page.code))
                   /\ page.metadata \o LineAt(page.code, p) \o page.content = page.code

\* every iteration that does not return moves start forward, within the page
SplitProgress ==
    [][page'.pc = "loop" => (page'.start > page.start /\ page'.start <= Len(page.code))]_vars

\* C32 as stated: the page is split at the first line that is exactly
\* "+++", and fails with MissingMetadataTerminator exactly when there is no
\* such line; split terminates.
C32_SplitAtExactLine ==
    /\ [](SplitsAtFirst({p \in LineStarts(page.code) : ExactTerminator(LineAt(page.code, p))}))
    /\ SplitProgress

\* C32, amended: the page is split at the first line that is "+++" once
\* the whitespace around it is trimmed; metadata is the text before that
\* line, content the text after it, and metadata + line + content is the
\* page; it fails with MissingMetadataTerminator exactly when no line trims
\* to "+++"; every iteration moves forward, so split terminates.
C32_SplitAtTrimmedLine ==
    /\ [](SplitsAtFirst({p \in LineStarts(page.code) : PaddedTerminator(LineAt(page.code, p))}))
    /\ SplitProgress

\* the padded line " +++ " ended the metadata, the later "+++" is content
C32_Witness ==
    /\ page.pc = "done"
    /\ page.result = "Ok"
    /\ page.metadata = <<97, Newline>>
    /\ page.content = <<Plus, Plus, Plus, Newline>>

----------------------------------------------------------------------------
(* src/core/src/markdown/to_html.rs: <mdast::Text as ToHtml>::to_html.
   Offsets count chars; the code counts bytes and moves by whole chars *)

\* longest text drawn from TextAlphabet
MaxTextLen == 4

\* longest body, drawn from TextAlphabet, of a text that starts with "{{"
MaxBlockLen == 5

Quote == 34
Backslash == 92
Amp == 38
Apostrophe == 39

\* TEMPLATE_BLOCK_START and TEMPLATE_BLOCK_END
TEMPLATE_BLOCK_START == <<LBrace, LBrace>>
TEMPLATE_BLOCK_END == <<RBrace, RBrace>>

\* tera::escape_html on one char
EscapeChar(ch) ==
    CASE ch = Amp -> <<Amp, 97, 109, 112, 59>>
      [] ch = Less -> <<Amp, 108, 116, 59>>
      [] ch = Greater -> <<Amp, 103, 116, 59>>
      [] ch = Quote -> <<Amp, 113, 117, 111, 116, 59>>
      [] ch = Apostrophe -> <<Amp, 35, 120, 50, 55, 59>>
      [] ch = Slash -> <<Amp, 35, 120, 50, 70, 59>>
      [] OTHER -> <<ch>>

\* tera::escape_html
RECURSIVE escape_html(_)
escape_html(s) == IF s = <<>> THEN <<>> ELSE EscapeChar(Head(s)) \o escape_html(Tail(s))

\* s[from ..].starts_with(pat), from counted from 0
StartsWith(s, from, pat) ==
    from + Len(pat) <= Len(s) /\ SubSeq(s, from + 1, from + Len(pat)) = pat

\* s.find(pat): the offset of the first occurrence, -1 for None
FindStr(s, pat) ==
    LET at == {i \in 0..Len(s) : StartsWith(s, i, pat)}
    IN  IF at = {} THEN -1 ELSE CHOOSE i \in at : \A j \in at : i <= j

\* { } " \ <
TextAlphabet == {LBrace, RBrace, Quote, Backslash, Less}

\* a text with two blocks, the second with "}}" inside a literal, and
\* escaped text around them
TextScenarios ==
    {<<Less, LBrace, LBrace, 97, RBrace, RBrace, Less,
       LBrace, LBrace, Quote, RBrace, RBrace, Quote, RBrace, RBrace, Quote>>}

TextInputs ==
    StringsUpTo(TextAlphabet, MaxTextLen)
        \cup {TEMPLATE_BLOCK_START \o b : b \in StringsUpTo(TextAlphabet, MaxBlockLen)}
        \cup TextScenarios

\* to_html is entered: let mut value = &self.value[..];
TextInit ==
    /\ tx \in {[text |-> s, value |-> s, buf |-> <<>>, pc |-> "outer", expanding |-> <<>>,
                len |-> 0, state |-> "BlockRoot", result |-> "None"] : s \in TextInputs}
    /\ page = <<>> /\ ctx = <<>> /\ ssg = <<>>
    /\ OthersIdle

TextFrame == UNCHANGED <<page, ctx, ssg>> /\ OthersFrame

\* the outer loop finds no block start: the rest is escaped, Ok(())
TextRest ==
    /\ tx.pc = "outer"
    /\ FindStr(tx.value, TEMPLATE_BLOCK_START) = -1
    /\ tx' = [tx EXCEPT !.buf = @ \o escape_html(tx.value), !.pc = "done", !.result = "Ok"]
    /\ TextFrame

\* the outer loop finds a block start: the text before it is escaped and
\* the scan of the block begins after the "{{"
TextOpen ==
    /\ tx.pc = "outer"
    /\ LET expand_start == FindStr(tx.value, TEMPLATE_BLOCK_START)
       IN  /\ expand_start # -1
           /\ tx' = [tx EXCEPT !.buf = @ \o escape_html(Slice(tx.value, 0, expand_start)),
                               !.expanding = Slice(tx.value, expand_start, Len(tx.value)),
                               !.len = Len(TEMPLATE_BLOCK_START),
                               !.state = "BlockRoot",
                               !.pc = "inner"]
    /\ TextFrame

\* the inner loop has no char left: Err(UnclosedBlock(value))
TextUnclosed ==
    /\ tx.pc = "inner"
    /\ tx.len >= Len(tx.expanding)
    /\ tx' = [tx EXCEPT !.pc = "done", !.result = "UnclosedBlock"]
    /\ TextFrame

\* TextScan in which a backslash inside a literal escapes nothing
TextScan_NoEscape ==
    /\ tx.pc = "inner"
    /\ tx.len < Len(tx.expanding)
    /\ LET ch == tx.expanding[tx.len + 1]
       IN  IF tx.state = "BlockRoot" /\ StartsWith(tx.expanding, tx.len, TEMPLATE_BLOCK_END)
             THEN LET end == tx.len + Len(TEMPLATE_BLOCK_END)
                  IN  tx' = [tx EXCEPT !.len = end,
                                       !.buf = @ \o Slice(tx.expanding, 0, end),
                                       !.value = Slice(tx.expanding, end, Len(tx.expanding)),
                                       !.pc = "outer"]
             ELSE tx' = [tx EXCEPT !.len = @ + 1,
                                   !.state =
                                       CASE tx.state = "BlockRoot" ->
                                              IF ch = Quote THEN "StringLiteral" ELSE "BlockRoot"
                                         [] tx.state = "StringLiteral" ->
                                              IF ch = Quote THEN "BlockRoot" ELSE "StringLiteral"
                                         [] tx.state = "Escaping" -> "StringLiteral"]
    /\ TextFrame

\* one iteration of the inner loop on the char at len: at the block end
\* outside a literal the block is copied and the outer loop goes on after
\* it; otherwise the state follows the char and len moves past it
TextScan ==
    /\ tx.pc = "inner"
    /\ tx.len < Len(tx.expanding)
    /\ LET ch == tx.expanding[tx.len + 1]
       IN  IF tx.state = "BlockRoot" /\ StartsWith(tx.expanding, tx.len, TEMPLATE_BLOCK_END)
             THEN LET end == tx.len + Len(TEMPLATE_BLOCK_END)
                  IN  tx' = [tx EXCEPT !.len = end,
                                       !.buf = @ \o Slice(tx.expanding, 0, end),
                                       !.value = Slice(tx.expanding, end, Len(tx.expanding)),
                                       !.pc = "outer"]
             ELSE tx' = [tx EXCEPT !.len = @ + 1,
                                   !.state =
                                       CASE tx.state = "BlockRoot" ->
                                              IF ch = Quote THEN "StringLiteral" ELSE "BlockRoot"
                                         [] tx.state = "StringLiteral" ->
                                              IF ch = Quote THEN "BlockRoot"
                                              ELSE IF ch = Backslash THEN "Escaping"
                                              ELSE "StringLiteral"
                                         [] tx.state = "Escaping" -> "StringLiteral"]
    /\ TextFrame

TextNext == TextRest \/ TextOpen \/ TextUnclosed \/ TextScan

SpecText == TextInit /\ [][TextNext]_vars

\* the offset after the first "}}" of s at or after offset i that is not
\* inside a string literal, inLit telling whether offset i is inside one;
\* a backslash inside a literal takes the next char with it; -1 when there
\* is no such "}}"
RECURSIVE BlockEnd(_, _, _)
BlockEnd(s, i, inLit) ==
    IF i >= Len(s) THEN -1
    ELSE IF inLit
      THEN IF s[i + 1] = Backslash THEN BlockEnd(s, i + 2, TRUE)
           ELSE BlockEnd(s, i + 1, s[i + 1] # Quote)
    ELSE IF StartsWith(s, i, TEMPLATE_BLOCK_END) THEN i + Len(TEMPLATE_BLOCK_END)
    ELSE BlockEnd(s, i + 1, s[i + 1] = Quote)

Unclosed == <<-1>>

\* the output for the text s: the blocks verbatim, the rest escaped;
\* Unclosed when a block has no end
RECURSIVE Rendered(_)
Rendered(s) ==
    LET b == FindStr(s, TEMPLATE_BLOCK_START)
    IN  IF b = -1 THEN escape_html(s)
        ELSE LET e == BlockEnd(s, b + Len(TEMPLATE_BLOCK_START), FALSE)
             IN  IF e = -1 THEN Unclosed
                 ELSE LET after == Rendered(Slice(s, e, Len(s)))
                      IN  IF after = Unclosed THEN Unclosed
                          ELSE escape_html(Slice(s, 0, b)) \o Slice(s, b, e) \o after

\* C33: a block opened by "{{" ends at the first "}}" that is not inside a
\* double-quoted literal, a backslash inside a literal making the next char
\* inert; blocks are copied verbatim and the text outside them is
\* HTML-escaped; a block without such a "}}" fails with UnclosedBlock.
C33_TemplateBlocks ==
    tx.pc = "done" =>
        IF Rendered(tx.text) = Unclosed
          THEN tx.result = "UnclosedBlock"
          ELSE tx.result = "Ok" /\ tx.buf = Rendered(tx.text)

\* the "}}" inside the literal did not end the second block
C33_Witness ==
    /\ tx.pc = "done"
    /\ tx.result = "Ok"
    /\ tx.text = <<Less, LBrace, LBrace, 97, RBrace, RBrace, Less,
                   LBrace, LBrace, Quote, RBrace, RBrace, Quote, RBrace, RBrace, Quote>>
    /\ tx.buf = <<Amp, 108, 116, 59, LBrace, LBrace, 97, RBrace, RBrace, Amp, 108, 116, 59,
                  LBrace, LBrace, Quote, RBrace, RBrace, Quote, RBrace, RBrace,
                  Amp, 113, 117, 111, 116, 59>>

----------------------------------------------------------------------------
(* src/core/src/markdown/to_html.rs: ToHtmlCtx's sections and slugs,
   Heading::to_html and Root::to_html, on documents whose children are
   headings with one Text child *)

\* most headings of a document
MaxHeadings == 3

Hyphen == 45
Underscore == 95

\* char::is_ascii_alphabetic
IsAsciiAlphabetic(ch) == ch \in 65..90 \/ ch \in 97..122

\* char::is_ascii_digit
IsAsciiDigit(ch) == ch \in 48..57

\* <mdast::Text as Slugify>::slugify, appending to out
RECURSIVE slugify(_, _)
slugify(value, out) ==
    IF value = <<>> THEN out
    ELSE LET ch == Head(value)
         IN  slugify(Tail(value),
                     IF IsAsciiAlphabetic(ch) THEN Append(out, ch)
                     ELSE IF out # <<>>
                       THEN IF IsAsciiDigit(ch) \/ ch = Underscore THEN Append(out, ch)
                            ELSE Append(out, Hyphen)
                     ELSE out)

\* str::to_ascii_lowercase
to_ascii_lowercase(s) == [i \in 1..Len(s) |-> IF s[i] \in 65..90 THEN s[i] + 32 ELSE s[i]]

\* [String]::join("-")
RECURSIVE JoinHyphen(_)
JoinHyphen(ss) ==
    IF ss = <<>> THEN <<>>
    ELSE IF Len(ss) = 1 THEN ss[1]
    ELSE ss[1] \o <<Hyphen>> \o JoinHyphen(Tail(ss))

\* Display of an unsigned integer
RECURSIVE Decimal(_)
Decimal(n) == IF n < 10 THEN <<48 + n>> ELSE Append(Decimal(n \div 10), 48 + (n % 10))

\* "</div>"
CloseDiv == <<60, 47, 100, 105, 118, 62>>

\* "<div class=\"section-body\">"
SectionBody == <<60, 100, 105, 118, 32, 99, 108, 97, 115, 115, 61, 34, 115, 101, 99, 116, 105, 111, 110, 45, 98, 111, 100, 121, 34, 62>>

\* "section_"
SectionPrefix == <<115, 101, 99, 116, 105, 111, 110, 95>>

\* "<h{depth} id=\""
HeadingIdOpen(depth) == <<60, 104>> \o depth \o <<32, 105, 100, 61, 34>>

\* "\"><a href=\"" then '#'
HeadingHrefOpen == <<34, 62, 60, 97, 32, 104, 114, 101, 102, 61, 34>>

Hash == 35

\* "\">"
HeadingOpenEnd == <<34, 62>>

\* "</a></h{depth}>"
HeadingClose(depth) == <<60, 47, 97, 62, 60, 47, 104>> \o depth \o <<Greater>>

\* the depth written in the tags: 1 to 5 as they are, anything else "6"
DepthStr(depth) == IF depth \in 1..5 THEN <<48 + depth>> ELSE <<54>>

\* slugs.get(base), 0 for a vacant entry; slugs is the set of its pairs
SlugCount(slugs, base) ==
    IF \E e \in slugs : e[1] = base THEN (CHOOSE e \in slugs : e[1] = base)[2] ELSE 0

\* prepare_section_level with the loop running close_count times
prepare_section_level_Exclusive(c, new_depth) ==
    IF Len(c.sections) >= new_depth
      THEN LET n == Len(c.sections) - new_depth
               kept == Len(c.sections) - n
           IN  [c EXCEPT !.sections = SubSeq(c.sections, 1, IF kept > 0 THEN kept ELSE 0),
                         !.buf = @ \o Flatten([k \in 1..n |-> CloseDiv]),
                         !.closed = @ + n,
                         !.vain = @ + (IF n > Len(c.sections) THEN n - Len(c.sections) ELSE 0)]
      ELSE c

\* ToHtmlCtx::prepare_section_level: when len >= new_depth, len - new_depth
\* + 1 times a pop (of nothing when the stack is empty) and a "</div>";
\* closed counts the "</div>", vain the pops of an empty stack
prepare_section_level(c, new_depth) ==
    IF Len(c.sections) >= new_depth
      THEN LET n == Len(c.sections) - new_depth + 1
               kept == Len(c.sections) - n
           IN  [c EXCEPT !.sections = SubSeq(c.sections, 1, IF kept > 0 THEN kept ELSE 0),
                         !.buf = @ \o Flatten([k \in 1..n |-> CloseDiv]),
                         !.closed = @ + n,
                         !.vain = @ + (IF n > Len(c.sections) THEN n - Len(c.sections) ELSE 0)]
      ELSE c

\* ToHtmlCtx::make_slug on the sections and slugs of c: the slug and the
\* new slugs
make_slug(c) ==
    LET base_slug == to_ascii_lowercase(JoinHyphen(c.sections))
        count == SlugCount(c.slugs, base_slug) + 1
    IN  [slug |-> IF count > 1 THEN base_slug \o <<Hyphen>> \o Decimal(count) ELSE base_slug,
         slugs |-> {e \in c.slugs : e[1] # base_slug} \cup {<<base_slug, count>>}]

\* ToHtmlCtx::enter_section: the context with the slug made
enter_section(c, depth, title_slug) ==
    LET prepared == prepare_section_level(c, depth)
        pushed == [prepared EXCEPT !.sections = Append(@, title_slug)]
        made == make_slug(pushed)
    IN  [pushed EXCEPT !.slugs = made.slugs, !.full_slug = made.slug]

\* "a", "a 2", "A"
Titles == {<<97>>, <<97, Space, 50>>, <<65>>}

Headings == [depth : 1..6, title : Titles]

Documents == UNION {[1..n -> Headings] : n \in 0..MaxHeadings}

\* a ToHtmlCtx::default() and an empty buf, before Root::to_html
HtmlInit ==
    /\ ctx \in {[doc |-> doc, next |-> 1, pc |-> "children", sections |-> <<>>, slugs |-> {},
                 buf |-> <<>>, closed |-> 0, vain |-> 0, bodies |-> 0, full_slug |-> <<>>,
                 ids |-> <<>>, hrefs |-> <<>>] : doc \in Documents}
    /\ page = <<>> /\ tx = <<>> /\ ssg = <<>>
    /\ OthersIdle

HtmlFrame == UNCHANGED <<page, tx, ssg>> /\ OthersFrame

\* Heading::to_html on the next child of the root; ids and hrefs keep the
\* id attribute and the href attribute it writes, bodies counts the
\* section-body divs
HeadingToHtml ==
    /\ ctx.pc = "children"
    /\ ctx.next <= Len(ctx.doc)
    /\ LET self == ctx.doc[ctx.next]
           depth == DepthStr(self.depth)
           id == SectionPrefix \o Decimal(Len(ctx.buf))
           title_slug == slugify(self.title, <<>>)
           entered == enter_section(ctx, self.depth, title_slug)
           href == <<Hash>> \o SectionPrefix \o entered.full_slug
       IN  ctx' = [entered EXCEPT
                      !.buf = @ \o HeadingIdOpen(depth) \o id \o HeadingHrefOpen \o href
                                \o HeadingOpenEnd \o escape_html(self.title)
                                \o HeadingClose(depth) \o SectionBody,
                      !.bodies = @ + 1,
                      !.ids = Append(@, id),
                      !.hrefs = Append(@, href),
                      !.next = @ + 1]
    /\ HtmlFrame

\* Root::to_html after its children: leave_section(1), Ok(())
RootLeave ==
    /\ ctx.pc = "children"
    /\ ctx.next > Len(ctx.doc)
    /\ ctx' = [prepare_section_level(ctx, 1) EXCEPT !.pc = "done"]
    /\ HtmlFrame

HtmlNext == HeadingToHtml \/ RootLeave

SpecHtml == HtmlInit /\ [][HtmlNext]_vars

\* C34: when Root::to_html has succeeded the section stack is empty and as
\* many "</div>" were written by section handling as section-body divs by
\* headings; after a heading of depth d the stack holds at most d sections;
\* no "</div>" is ever written for a pop of an empty stack.
C34_SectionsBalanced ==
    /\ ctx.pc = "done" => ctx.sections = <<>> /\ ctx.closed = ctx.bodies
    /\ ctx.pc = "children" /\ ctx.next > 1 =>
           Len(ctx.sections) <= ctx.doc[ctx.next - 1].depth
    /\ ctx.vain = 0

\* h3, h2, h1 : the h1 closed both open sections, and the end closed the h1
C34_Witness ==
    /\ ctx.pc = "done"
    /\ Len(ctx.doc) = 3
    /\ ctx.doc[1].depth = 3 /\ ctx.doc[2].depth = 2 /\ ctx.doc[3].depth = 1
    /\ ctx.closed = 3 /\ ctx.bodies = 3
    /\ ctx.sections = <<>>

\* the full slug given to the i-th heading: its href without "#section_"
FullSlug(i) == SubSeq(ctx.hrefs[i], Len(SectionPrefix) + 2, Len(ctx.hrefs[i]))

\* C35: within one document the full slugs given to distinct headings are
\* pairwise different.
C35_SlugsPairwiseDifferent ==
    \A i, j \in 1..Len(ctx.hrefs) : i # j => FullSlug(i) # FullSlug(j)

\* C36: on every heading written, the fragment of the anchor's href (the
\* href without its '#') equals the id attribute of the same element.
C36_HeadingLinksToItself ==
    \A i \in 1..Len(ctx.hrefs) : Tail(ctx.hrefs[i]) = ctx.ids[i]

----------------------------------------------------------------------------
(* src/src/config.rs and src/core/src/ssg.rs: Config's template directory,
   LinSsg::new, register_fn and doc *)

\* longest directory given to with_templates
MaxDirLen == 4

\* "templates/**/*", the template_dir of Config::default()
DefaultTemplateDir == <<116, 101, 109, 112, 108, 97, 116, 101, 115, 47, 42, 42, 47, 42>>

\* "/**/*"
GlobSuffix == <<47, 42, 42, 47, 42>>

\* a / and U+00E9, which takes two bytes
DirAlphabet == {97, Slash, 233}

\* five-byte and longer directories
DirScenarios == {<<97, 97, 97, 97, 97>>, <<97, 97, 97, 97, 233>>, <<116, 101, 109, 112, 108, 97, 116, 101, 115>>}

DirInputs == StringsUpTo(DirAlphabet, MaxDirLen) \cup DirScenarios

\* &s[.. n]: the chars of the first n bytes of s; a panic when s is shorter
\* or byte n is inside a char
SliceTo(s, n) ==
    LET ks == {k \in 0..Len(s) : ByteLen(SubSeq(s, 1, k)) = n}
    IN  IF ks = {} THEN [kind |-> "Panic", path |-> <<>>]
        ELSE [kind |-> "Path", path |-> SubSeq(s, 1, CHOOSE k \in ks : TRUE)]

\* Config::template_dir
template_dir(config) == SliceTo(config.template_dir, ByteLen(GlobSuffix))

FnNames == {"f", "g"}

\* what a function's doc() returns
FnDocs == {"doc1", "doc2"}

\* HashMap::get on a map kept as the set of its (key, value) pairs
MapGet(map, key) ==
    IF \E e \in map : e[1] = key THEN SomeS((CHOOSE e \in map : e[1] = key)[2]) ELSE NoneS

NoDir == [kind |-> "None", path |-> <<>>]

\* Config::default(); given, registered, dir, asked and answer record the
\* calls made and what they returned
SsgInit ==
    /\ ssg = [pc |-> "config", template_dir |-> DefaultTemplateDir,
              given |-> [by |-> "default", d |-> <<>>], dir |-> NoDir,
              tera |-> {}, docs |-> {}, registered |-> {}, asked |-> "", answer |-> NoneS]
    /\ page = <<>> /\ tx = <<>> /\ ctx = <<>>
    /\ OthersIdle

SsgFrame == UNCHANGED <<page, tx, ctx>> /\ OthersFrame

\* Config::with_templates(d)
WithTemplates ==
    /\ ssg.pc = "config"
    /\ \E d \in DirInputs :
           ssg' = [ssg EXCEPT !.template_dir = d \o GlobSuffix,
                              !.given = [by |-> "with_templates", d |-> d],
                              !.dir = NoDir]
    /\ SsgFrame

\* a call of Config::template_dir() by the user of the Config
TemplateDirCall ==
    /\ ssg.pc = "config"
    /\ ssg.dir = NoDir
    /\ ssg' = [ssg EXCEPT !.dir = template_dir(ssg),
                          !.pc = IF template_dir(ssg).kind = "Panic" THEN "panicked" ELSE @]
    /\ SsgFrame

\* Config::finish, LinSsg::new: template_dir(), then Tera::new on it,
\* which succeeds or fails with what the file system holds
SsgNew ==
    /\ ssg.pc = "config"
    /\ \E tera_ok \in BOOLEAN :
           ssg' = [ssg EXCEPT !.dir = template_dir(ssg),
                              !.pc = IF template_dir(ssg).kind = "Panic" THEN "panicked"
                                     ELSE IF tera_ok THEN "ssg" ELSE "InitError",
                              !.tera = {}, !.docs = {}]
    /\ SsgFrame

\* LinSsg::register_fn(name, fun): tera.register_function, nothing else
RegisterFn ==
    /\ ssg.pc = "ssg"
    /\ \E name \in FnNames, fdoc \in FnDocs :
           ssg' = [ssg EXCEPT !.tera = @ \cup {name},
                              !.registered = {e \in @ : e[1] # name} \cup {<<name, fdoc>>},
                              !.asked = "", !.answer = NoneS]
    /\ SsgFrame

\* LinSsg::doc(fn_name)
DocCall ==
    /\ ssg.pc = "ssg"
    /\ \E fn_name \in FnNames :
           ssg' = [ssg EXCEPT !.asked = fn_name, !.answer = MapGet(ssg.docs, fn_name)]
    /\ SsgFrame

SsgNext == WithTemplates \/ TemplateDirCall \/ SsgNew \/ RegisterFn \/ DocCall

SpecSsg == SsgInit /\ [][SsgNext]_vars

\* "templates"
Templates == <<116, 101, 109, 112, 108, 97, 116, 101, 115>>

\* C37: template_dir() never panics, and it returns the directory given to
\* with_templates, "templates" for Config::default().
C37_TemplateDirKept ==
    /\ ssg.pc # "panicked"
    /\ ssg.dir.kind # "Panic"
    /\ ssg.dir.kind = "Path" =>
           ssg.dir.path = (IF ssg.given.by = "default" THEN Templates ELSE ssg.given.d)

\* C38: doc(name) returns Some(f.doc()) of the function last registered
\* under name, and None only for a name never registered.
C38_DocOfRegistered ==
    ssg.asked # "" => ssg.answer = MapGet(ssg.registered, ssg.asked)

====
